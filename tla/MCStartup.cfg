\* Every mapping of two providers; every log, file, key and URL setting.
CONSTANTS
    Name <- MCName
    Mention <- MCMention
    Lists <- MCLists
    Deployments <- MCDeployments
    Geometry <- MCGeometry
    MaxAborts = 1
    MaxFormats = 1
    None = None

SPECIFICATION Spec

INVARIANTS
    TypeOK
    ServingIsWhole
    
    FailureRenderedOnce
    ClientsBalance
