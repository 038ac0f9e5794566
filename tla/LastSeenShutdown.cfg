SPECIFICATION SeenSpec
CONSTANTS
    SeenReplicas = {r1, r2}
    MaxSightings = 4
PROPERTY CleanShutdownKeepsSightings
