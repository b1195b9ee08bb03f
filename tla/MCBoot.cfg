\* Two servers and the migrate script start over one database.
SPECIFICATION Spec
CONSTANTS
    s1 = s1
    s2 = s2
    script = script
    Servers = {s1, s2}
    Scripts = {script}
    Migrations = 2
    Tables = 2
    SeedRows = 2
    Created = {1}
    MaxStarts = 4
SYMMETRY Interchangeable
CHECK_DEADLOCK FALSE
INVARIANTS
    ServedWhenReady
PROPERTIES
    EditsSurviveBoots
