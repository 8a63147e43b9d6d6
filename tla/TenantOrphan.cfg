CONSTANTS
    Owner = owner
    Users = {owner, colleague}
    Provisioners = {p1}
    Sweepers = {w1}
    NoWorker = NoWorker
    MaxFailures = 1
SPECIFICATION Spec
PROPERTIES
    NoDatabaseAfterTermination
