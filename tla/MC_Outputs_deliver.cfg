\* One sink per run, both transports; two attempts; one name of artifact; three publishers.
SPECIFICATION OutputsSpec
CONSTANTS
  Lines = 2
  BatchMax = 2
  MaxAttempts = 2
  MaxCrashes = 1
  Retries = 1
  MaxFailures = 2
  MaxEdits = 1
  Attempts = 2
  MaxEntries = 2
  BatchSize = 2
  Oversize = {2}
  Uploads = {1, 2}
  Attempt <- OwnAttempt
  MaxRewrites = 1
  UploadFailures = 1
  Streams = {"stdout", "stderr"}
  QueueSize = 2
  MaxAttachments = 2
  Threads = {"t1", "t2"}
  Groups = {"group"}
  Provider <- ProviderOf
  Source <- TextOf
  Missing = "missing"
  Gone = "gone"
  Builtin = {"text-file", "environment-variable"}
  Plugins = {"plugin"}
  Space = " "
  Mask = "*"
  MinLength = 2
  ScopedToken <- TokenText
  Pieces <- Around
  Publishers = {"p1", "p2", "p3"}
  Given = {"p3"}
  Credentials = {"p2"}
  Access <- Challenge
  Optional = {"p1", "p3"}
  Pinned = {"p2"}
  MaxPushes = 1
INVARIANT TypesOK Accounted DuplicatesExplained OrderKept
INVARIANT ConsoleComplete EntriesAccounted UploadedMatches Masked PublishHonest
PROPERTY Delivered
CHECK_DEADLOCK FALSE
