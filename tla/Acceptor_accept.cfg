\* Three connections; the listening socket takes one descriptor of three, and something
\* else may take another.
CONSTANTS
  Conns = {c1, c2, c3}
  MaxFds = 3
  MaxOthers = 1
  Backlog = 2
  NoConn = NoConn
  Transient = {"EINTR", "ENFILE", "EOTHER"}
  VALGRIND = FALSE
SPECIFICATION FairSpec
\* LOG_FATAL ends the process.
CHECK_DEADLOCK FALSE
INVARIANTS TypeOK DescriptorsAreUsers GivenInOrder SurvivesExpectedErrors
PROPERTIES BacklogDrains
