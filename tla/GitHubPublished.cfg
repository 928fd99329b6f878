SPECIFICATION FairSpec
CONSTANTS
    Consumers = {c1}
    Requests = {r1}
    Executions = {x1}
    NoConsumer = NoConsumer
    MaxCrashes = 1
PROPERTY EventPublished
