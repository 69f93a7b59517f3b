SPECIFICATION Spec
CONSTANTS
    Meta <- MCMeta
    Hash <- MCHash
    Statements <- MCStatements
    SecretWrites <- MCSecretWrites
    RowsPerStatement = 2
    RowsPerPayload = 1

    
    
    
PROPERTIES
    WholeSpec
