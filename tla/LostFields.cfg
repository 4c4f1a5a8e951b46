SPECIFICATION Spec
CONSTANTS
    Ids = {"u1"}
    Authors = {"other", NotAUrl}
    NotAUrl = NotAUrl
    Did = "did1"
    Owner = "owner"
    Times = {2, 5}
    OtherFormat = OtherFormat
    Subjects <- MCSubjects
    NotADictionary = NotADictionary
    Nonces <- MCNonces
    Jwts <- MCJwts
    Statuses = {"revocable"}
    MaxList = 2
INVARIANTS SomethingGivenIsKept
CHECK_DEADLOCK FALSE
