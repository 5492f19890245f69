-------------------------- MODULE MCAsyncLogger --------------------------
(* Instances of AsyncLogger for TLC: the configuration files considered. *)
EXTENDS AsyncLogger

Conf(info, wf, console, fileLevel, consoleLevel) ==
    [info |-> info, wf |-> wf, console |-> console,
     fileLevel |-> fileLevel, consoleLevel |-> consoleLevel]

\* Two files; a console that filters and a file that takes all levels, from WARN on.
MCSafetyConfs == {Conf(TRUE, TRUE, FALSE, LogLevelDebug, LogLevelDebug),
                  Conf(TRUE, FALSE, TRUE, LogLevelWarn, LogLevelFatal)}

\* All three writers.
MCAllWriters == {Conf(TRUE, TRUE, TRUE, LogLevelDebug, LogLevelWarn)}

MCMsgLevels  == {LogLevelInfo, LogLevelWarn}
MCOneLevel   == {LogLevelWarn}
=============================================================================
