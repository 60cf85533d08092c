CONSTANTS
    Ports = {0, 65536}
    Levels = {0, 1, 22, 23, 259}
    Counts = {0, 1}
    Seconds = {0, 1}
    Garbled = {"DB_PASSWORD", "DB_PORT", "COMPRESSION_LEVEL", "DRIVE_RETENTION_COUNT", "PG_TIMEOUT_SECS"}

SPECIFICATION StartSpec
INVARIANTS
    SettingsUsable
    SettingsAsGiven
