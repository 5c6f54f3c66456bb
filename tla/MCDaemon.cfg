SPECIFICATION FairDaemonSpec
CONSTANTS
  Procs = {p1, p2, p3}
  NoProc = NoProc
INVARIANTS DaemonIsFound OneDaemon PidNamesDaemon
PROPERTIES SomeDaemonAnswers
CHECK_DEADLOCK FALSE
