SPECIFICATION FairSpec
CONSTANTS
    Shells = {sh}
    Clis = {c1, c2}
    Sessions = {s1}
    Runs = {r1}
    Commands <- UserCommands
    NoSession = NoSession
    NoRun = NoRun
    MaxFaults = 1
INVARIANT LogIsTrue
INVARIANT RunningIsTended
PROPERTY StepsAreLegal
PROPERTY EndIsFinal
PROPERTY RunsAreClosed
