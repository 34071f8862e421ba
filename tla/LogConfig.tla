------------------------------ MODULE LogConfig ------------------------------
(***************************************************************************)
(* fn_log's configuration while the logger runs: InitFromYMALFile loads it,   *)
(* and every channel's thread calls HotUpdateLogger, which reads the file     *)
(* again when its modification time is another one (include/util/fn_log.h).   *)
(* LogText models the parser; here a file holds either a parsed configuration  *)
(* or an error.  Modification times have the resolution of st_mtime, a second: *)
(* two edits may share one.                                                    *)
(***************************************************************************)
EXTENDS Integers, Sequences

CONSTANTS
    FieldSets,    \* what a channel or a device may be configured with, its devices apart
    Configs,      \* what the file may hold: [hot_update, channels], a channel being
                  \* [fields, devices] and a device its fields; or ParseError
    HOTUPDATE_INTERVEL,
    MaxVersion    \* bound: times the file is written or removed

\* What ParseLogger does not accept; it accepts nothing without a channel.
ParseError == [hot_update |-> FALSE, channels |-> <<>>]

ASSUME LogConfigAssumption ==
    /\ Configs \subseteq [hot_update : BOOLEAN,
                         channels : Seq([fields : FieldSets, devices : Seq(FieldSets)])]
    /\ HOTUPDATE_INTERVEL \in Nat

VARIABLES
    yaml,         \* the file: [there, text, mtime]
    hot_update,   \* logger.hot_update_
    channel,      \* channels_: [fields, devices, yaml_mtime, age] each, age being the
                  \* seconds since last_hot_check_, up to HOTUPDATE_INTERVEL
    version,      \* counter
    same_second   \* ghost: two edits within a second

configVars == <<yaml, hot_update, channel, version, same_second>>

\* InitFromYMAL and InitFromYMALFile, on a file without error.
InitFromYMALFile ==
    \E c \in Configs \ {ParseError} :
        /\ yaml = [there |-> TRUE, text |-> c, mtime |-> 0]
        /\ hot_update = c.hot_update
        /\ channel = [i \in DOMAIN c.channels |->
                        [fields |-> c.channels[i].fields, devices |-> c.channels[i].devices,
                         yaml_mtime |-> 0, age |-> HOTUPDATE_INTERVEL]]

ConfigInit == InitFromYMALFile /\ version = 0 /\ same_second = FALSE

-----------------------------------------------------------------------------

\* The devices both have get the new fields, the ones that are new are
\* appended, and the ones that are gone stay as they are.
NewDevices(old, new) ==
    [d \in 1 .. (IF Len(old) < Len(new) THEN Len(new) ELSE Len(old)) |->
        IF d <= Len(new) THEN new[d] ELSE old[d]]

\* Mutants: only hot_update_ is taken from the file; the time of a file in error
\* is not taken.
Applied_Partly(i) ==
    /\ hot_update' = (hot_update /\ yaml.text.hot_update)
    /\ channel' = [channel EXCEPT ![i].yaml_mtime = yaml.mtime, ![i].age = 0]

Applied_Retries(i) ==
    IF yaml.text = ParseError THEN channel' = [channel EXCEPT ![i].age = 0] /\ UNCHANGED hot_update
    ELSE /\ hot_update' = yaml.text.hot_update
         /\ channel' = [channel EXCEPT ![i].yaml_mtime = yaml.mtime, ![i].age = 0]

\* The file is parsed for one channel: an error leaves all but yaml_mtime_, as
\* does a configuration in which the channel is missing (but for hot_update_).
Applied(i) ==
    LET seen == [channel EXCEPT ![i].yaml_mtime = yaml.mtime, ![i].age = 0]
    IN IF yaml.text = ParseError THEN channel' = seen /\ UNCHANGED hot_update
       ELSE /\ hot_update' = yaml.text.hot_update
            /\ channel' = IF i \notin DOMAIN yaml.text.channels THEN seen
                          ELSE [seen EXCEPT ![i].fields = yaml.text.channels[i].fields,
                                            ![i].devices = NewDevices(@, yaml.text.channels[i].devices)]

\* HotUpdateLogger, on the thread of channel i, in a running logger.
HotUpdate(i) ==
    /\ i \in DOMAIN channel /\ hot_update /\ channel[i].age = HOTUPDATE_INTERVEL
    /\ IF ~yaml.there \/ yaml.mtime = channel[i].yaml_mtime
       THEN channel' = [channel EXCEPT ![i].age = 0] /\ UNCHANGED hot_update
       ELSE Applied(i)
    /\ UNCHANGED <<yaml, version, same_second>>

\* Somebody edits the file, or removes it.
Edit(c, there, same) ==
    /\ version < MaxVersion /\ version' = version + 1
    /\ yaml' = [there |-> there, text |-> c, mtime |-> IF same THEN yaml.mtime ELSE yaml.mtime + 1]
    /\ same_second' = (same_second \/ same)
    /\ UNCHANGED <<hot_update, channel>>

\* A second passes.
ConfigTick ==
    /\ channel' = [i \in DOMAIN channel |->
                      [channel[i] EXCEPT !.age = IF @ < HOTUPDATE_INTERVEL THEN @ + 1 ELSE @]]
    /\ UNCHANGED <<yaml, hot_update, version, same_second>>

ConfigNext ==
    \/ \E i \in DOMAIN channel : HotUpdate(i)
    \/ \E c \in Configs, there, same \in BOOLEAN : Edit(c, there, same)
    \/ ConfigTick

ConfigSpec == ConfigInit /\ [][ConfigNext]_configVars

-----------------------------------------------------------------------------
(* Properties *)

\* A channel that has seen the file has what is in it, if that can be parsed
\* and names the channel; a file in error leaves the channel as it was.
SeenIsApplied ==
    ~same_second /\ yaml.text # ParseError =>
        \A i \in DOMAIN channel \cap DOMAIN yaml.text.channels :
            channel[i].yaml_mtime = yaml.mtime =>
                /\ channel[i].fields = yaml.text.channels[i].fields
                /\ \A d \in DOMAIN yaml.text.channels[i].devices :
                      channel[i].devices[d] = yaml.text.channels[i].devices[d]

\* An edit reaches every channel, unless it was the second within a second or
\* hot_update_ is off.  It may go off with the first channel that reads a file
\* saying so: the other channels then keep the older configuration for good.
EditReaches ==
    \A i \in 1 .. 2 :
        <>[](~hot_update \/ same_second \/ ~yaml.there \/ i \notin DOMAIN channel \/ channel[i].yaml_mtime = yaml.mtime)
=============================================================================
