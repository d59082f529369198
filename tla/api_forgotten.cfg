SPECIFICATION Spec
CONSTANTS
    Clients = {"a"}
    Memories = {"m1", "m2"}
    Calls <- AllCalls
    MaxRetries = 1
    MaxRestarts = 0
PROPERTIES ForgottenNotRecalled
