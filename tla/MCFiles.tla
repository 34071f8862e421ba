------------------------------- MODULE MCFiles -------------------------------
(* TLC instance of the modules about files, which share no state: a behaviour *)
(* is one of File's, one of LogFile's or one of LogConfig's.  See MCFiles.cfg.  *)
EXTENDS File, LogFile, LogConfig

VARIABLE which

Device(limit, rolls, dated) ==
    [limit |-> limit, rollback |-> rolls, dated |-> dated, priority |-> 1, able |-> TRUE]
MCDevices ==
    {Device(0, 0, FALSE), Device(3, 0, FALSE), Device(3, 1, FALSE), Device(3, 2, FALSE),
     Device(3, 2, TRUE), Device(0, 1, TRUE), [Device(3, 2, TRUE) EXCEPT !.able = FALSE]}

Chan(fields, devices) == [fields |-> fields, devices |-> devices]
Base == [hot_update |-> TRUE, channels |-> <<Chan(1, <<1>>), Chan(1, <<>>)>>]
MCConfigs ==
    {Base, [hot_update |-> TRUE, channels |-> <<Chan(2, <<2, 2>>)>>],
     [hot_update |-> FALSE, channels |-> <<Chan(2, <<>>), Chan(2, <<1>>)>>], ParseError}

filesVars == <<which, fileVars, logFileVars, configVars>>

Init ==
    /\ which \in {"file", "log", "config"}
    /\ FileInit /\ LogFileInit /\ ConfigInit
    /\ which # "file" => app = "sync" /\ fd = 0 /\ cpu = "CPULOAD" /\ \A n \in Names : disk[n] = -1
    /\ which # "log" => dev = Device(0, 0, FALSE)
    /\ which # "config" => yaml.text = Base

Next ==
    /\ UNCHANGED which
    /\ \/ which = "file" /\ FileNext /\ UNCHANGED <<logFileVars, configVars>>
       \/ which = "log" /\ LogFileNext /\ UNCHANGED <<fileVars, configVars>>
       \/ which = "config" /\ ConfigNext /\ UNCHANGED <<fileVars, logFileVars>>

\* libuv completes the requests it was given; the logger's threads and the
\* clock go on.
Config(A) == which = "config" /\ A /\ UNCHANGED <<which, fileVars, logFileVars>>
Spec == Init /\ [][Next]_filesVars
        /\ \A i \in 1 .. 2 : WF_filesVars(Config(HotUpdate(i)))
        /\ WF_filesVars(Config(ConfigTick))
        /\ WF_filesVars(which = "file" /\ orderly /\ FileDone /\ UNCHANGED <<which, logFileVars, configVars>>)

\* Files that were opened are closed in the end, and an edit of fn_log's
\* configuration reaches its channels.
FilesSettle == FileClosed /\ EditReaches
=============================================================================
