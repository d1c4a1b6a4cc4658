SPECIFICATION ContainerSpec
CONSTANTS
    Services = {"ai", "db"}
    Goroutines = {g1, g2}
    MaxInstances = 4
INVARIANTS
    OneInstanceUnlessRaced
