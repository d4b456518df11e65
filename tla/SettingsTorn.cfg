SPECIFICATION SettingsSpec
CONSTANTS
    Apps = {a1, a2, a3}
    MayCrash = TRUE
PROPERTY NothingMadeUp
