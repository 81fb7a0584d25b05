SPECIFICATION Spec
CONSTANTS
    User = User
    Recipient = Recipient
    FeePayer = FeePayer
    Points = Points
    FeeToken = FeeToken
    Amounts <- MCAmounts
    MaxInputs = 5
    NotAvailable = NotAvailable
    SpendAmounts <- MCSpendAmounts
    FeeUtxoAmounts <- MCFeeUtxoAmounts
    Fees = {1, 2, 3}
INVARIANTS
    RelayedTxTypeOK
    ExactlyPaid
    FitsInTransaction
    SplitPartsPayFee
    AcceptedForQuotedFee
    EntryTellsTheTransfer
    MergeIsWhatItSays
CHECK_DEADLOCK FALSE
