SPECIFICATION Spec
CONSTANTS
    Nil = Nil
    Repo = {repo1, repo2}
    Pat = {work}
    Registry = {work}
    Engine = {"claude", "codex", "kimi"}
    Installed = {"claude", "codex"}
    Workflow <- SomeWorkflow
    Entries <- SomeEntries
    Faults = {"kaneo", "git", "disk"}
    MaxEdits = 2
    MaxChanges = 1
    MaxCrashes = 1
INVARIANTS
    TypeOK
PROPERTIES
    StartsAsBound
    EngineAsRouted

SYMMETRY AnyRepo
