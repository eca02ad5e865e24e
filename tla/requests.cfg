SPECIFICATION Spec
CONSTANTS
    None = None
    Valid <- MCValid
    Offered <- MCOffered
    Languages <- MCLanguages
    Credential <- MCCredential
    JwtIssuer = "iri:issuer"
    JwtAudience = "lrs"
    LrsHomePage = "iri:lrs"
    Voided = "iri:voided"
    Signature = "iri:signature"
    VerifySignatures = TRUE
    MaxBody = 2
    WindowSeconds = 2
    MaxRequests = 2
    Second = 2
    Horizon <- MCHorizon
    MaxServed <- MCMaxServed
    MaxBatch <- MCMaxBatch
INVARIANTS
    AlternateMeansTheSame
    ReadBackIsAccepted
PROPERTY
    WithinTheWindow
