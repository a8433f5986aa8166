SPECIFICATION MigrationSpec
INVARIANT EmptyDatabaseUpgrades
