------------------------------- MODULE FlagStorage -------------------------------
(***************************************************************************)
(* The feature flags: one GenServer of flagd-ui holds the flag document    *)
(* and works off a mailbox of reads, single-flag writes and replacements   *)
(* of the document; each change goes to the file that the flagd daemon     *)
(* watches before the state takes it.  Dashboards write single flags.      *)
(* Editors show the document as it was when they were opened and send all  *)
(* of it back when it is saved, as clients of the REST API do.             *)
(***************************************************************************)
EXTENDS Integers, Sequences

CONSTANTS
    Flags,      \* the flag names
    Variants,   \* the variants a flag can have by default
    Editors,    \* the open editor pages and API clients
    Default,    \* the flags of the file that is shipped
    MaxCasts,   \* bound: the messages sent to the GenServer
    MaxDeaths   \* bound: the times the service is stopped from outside

\* What a document can say of a flag besides its default variant: that it is
\* not there or has none, and that its data is no object.
Unset == "unset"
NoMap == "no map"

ASSUME FlagAssumption ==
    /\ Unset \notin Variants /\ NoMap \notin Variants
    /\ Default \in [Flags -> Variants]
    /\ MaxCasts \in Nat /\ MaxDeaths \in Nat

VARIABLES
    state,     \* the GenServer's document, Nothing while it is down
    file,      \* the document in the file, Nothing while it is cut short
    writing,   \* the document File.write! is writing, or Nothing
    mailbox,   \* the GenServer's messages
    content,   \* per editor, the document in its text area
    base,      \* per editor, the document it last read or saved
    served,    \* the flags that flagd evaluates
    casts,     \* the messages sent
    deaths,    \* the stops
    intent     \* history: per flag, what dashboards last made it

flagVars == <<state, file, writing, mailbox, content, base, served, casts,
              deaths, intent>>

\* JSON with flags, an object without them, JSON that is neither, and no JSON.
Doc(flags) == [shape |-> "flags", flags |-> flags]
Bare       == [shape |-> "bare", flags |-> [f \in Flags |-> Unset]]
Other      == [shape |-> "other", flags |-> Default]
Nothing    == [shape |-> "nothing", flags |-> Default]

Docs == {Doc(flags) : flags \in [Flags -> Variants \cup {Unset, NoMap}]}

Texts == Docs \cup {Bare, Other}

\* A document that sets every flag.
Complete(doc) == doc.shape = "flags" /\ \A f \in Flags : doc.flags[f] \in Variants

AnyVariant == "any"

FlagInit ==
    /\ state = Doc(Default) /\ file = Doc(Default) /\ writing = Nothing
    /\ mailbox = <<>>
    /\ content = [e \in Editors |-> Nothing]
    /\ base = [e \in Editors |-> Nothing]
    /\ served = Default
    /\ casts = 0 /\ deaths = 0
    /\ intent = [f \in Flags |-> AnyVariant]

Up == state # Nothing

Post(msg) ==
    /\ Up /\ casts < MaxCasts
    /\ mailbox' = Append(mailbox, msg)
    /\ casts' = casts + 1

\* mount of AdvancedEditor: GenServer.call(Storage, :read).
Open(e) ==
    /\ Post([op |-> "read", from |-> e])
    /\ UNCHANGED <<state, file, writing, content, base, served, deaths, intent>>

\* The event "edit": the text area may hold any JSON.
Edit(e) ==
    /\ content[e] # Nothing
    /\ \E doc \in Texts : content' = [content EXCEPT ![e] = doc]
    /\ UNCHANGED <<state, file, writing, mailbox, base, served, casts, deaths, intent>>

\* The event "save": GenServer.cast(Storage, {:replace, content}).
Save(e) ==
    /\ content[e] # Nothing
    /\ Post([op |-> "replace", from |-> e, doc |-> content[e]])
    /\ UNCHANGED <<state, file, writing, content, base, served, deaths, intent>>

\* The event "flag_changed" of a dashboard.
FlagChanged(f, v) ==
    /\ Post([op |-> "write", flag |-> f, variant |-> v])
    /\ UNCHANGED <<state, file, writing, content, base, served, deaths, intent>>

(***************************************************************************)
(* The GenServer takes one message after the other.                        *)
(***************************************************************************)
NextIs(op) == Up /\ writing = Nothing /\ mailbox # <<>> /\ Head(mailbox).op = op

HandleRead ==
    LET e == Head(mailbox).from
    IN /\ NextIs("read")
       /\ content' = [content EXCEPT ![e] = state]
       /\ base' = [base EXCEPT ![e] = state]
       /\ mailbox' = Tail(mailbox)
       /\ UNCHANGED <<state, file, writing, served, casts, deaths, intent>>

\* File.write! opens the file and cuts it.
BeginWrite(doc) ==
    /\ writing' = doc
    /\ file' = Nothing
    /\ UNCHANGED <<state, mailbox, content, base, served, casts, deaths, intent>>

\* Faults for mutants of update_flag: the other flags are as shipped; the
\* flag gets its own name.
update_flag_alone(flags, f, v) == [Default EXCEPT ![f] = v]
update_flag_named(flags, f, v) == [flags EXCEPT ![f] = f]

\* Map.replace: only a flag that has a default variant gets another one.
update_flag(flags, f, v) ==
    IF flags[f] \in Variants THEN [flags EXCEPT ![f] = v] ELSE flags

HandleReplace == NextIs("replace") /\ BeginWrite(Head(mailbox).doc)

\* Map.update and Map.replace raise on what is no map.
Raises(msg) == state = Other \/ state.flags[msg.flag] = NoMap

\* Map.update gives an object without flags an empty map of them.
HandleWrite ==
    /\ NextIs("write") /\ ~Raises(Head(mailbox))
    /\ BeginWrite(Doc(update_flag(state.flags, Head(mailbox).flag,
                                  Head(mailbox).variant)))

\* What dashboards have made of the flags of the document, after msg is done:
\* the change of a flag that the document does not set makes nothing of it.
Wanted(msg) ==
    IF msg.op = "replace" THEN [f \in Flags |-> AnyVariant]
    ELSE IF state.flags[msg.flag] \in Variants
         THEN [intent EXCEPT ![msg.flag] = msg.variant]
    ELSE intent

\* Fault for a mutant of FinishWrite: the text is not written.
FinishWriteUnwritten ==
    LET msg == Head(mailbox)
    IN /\ writing # Nothing
       /\ file' = state /\ state' = writing /\ writing' = Nothing
       /\ mailbox' = Tail(mailbox)
       /\ base' = IF msg.op = "replace" THEN [base EXCEPT ![msg.from] = writing]
                  ELSE base
       /\ intent' = Wanted(msg)
       /\ UNCHANGED <<content, served, casts, deaths>>

\* The text is in the file, and the new document becomes the state.
FinishWrite ==
    LET msg == Head(mailbox)
    IN /\ writing # Nothing
       /\ file' = writing /\ state' = writing /\ writing' = Nothing
       /\ mailbox' = Tail(mailbox)
       /\ base' = IF msg.op = "replace" THEN [base EXCEPT ![msg.from] = writing]
                  ELSE base
       /\ intent' = Wanted(msg)
       /\ UNCHANGED <<content, served, casts, deaths>>

\* The GenServer is gone, and its mailbox with it.
ServerGone ==
    /\ state' = Nothing /\ writing' = Nothing /\ mailbox' = <<>>
    /\ intent' = IF writing # Nothing THEN Wanted(Head(mailbox)) ELSE intent

\* Fault for a mutant of WriteRaises: the file is opened before the document
\* is made.
WriteRaisesLate ==
    /\ NextIs("write") /\ Raises(Head(mailbox))
    /\ ServerGone
    /\ file' = Nothing
    /\ UNCHANGED <<content, base, served, casts, deaths>>

\* The GenServer ends before it has touched the file.
WriteRaises ==
    /\ NextIs("write") /\ Raises(Head(mailbox))
    /\ ServerGone
    /\ UNCHANGED <<file, content, base, served, casts, deaths>>

\* The service is stopped, before, in the middle of or right after the write
\* of a text, and its pages with it.
Die ==
    /\ Up /\ deaths < MaxDeaths
    /\ deaths' = deaths + 1
    /\ ServerGone
    /\ file' \in {file} \cup ({writing} \ {Nothing})
    /\ content' = [e \in Editors |-> Nothing]
    /\ base' = [e \in Editors |-> Nothing]
    /\ UNCHANGED <<served, casts>>

\* init: the file is read and decoded; it raises as long as that fails.
Start ==
    /\ ~Up /\ file # Nothing
    /\ state' = file
    /\ UNCHANGED <<file, writing, mailbox, content, base, served, casts, deaths, intent>>

\* flagd reloads a file with flags that it can make something of.
Reload ==
    /\ file.shape = "flags" /\ \A f \in Flags : file.flags[f] # NoMap
    /\ served' = file.flags
    /\ UNCHANGED <<state, file, writing, mailbox, content, base, casts, deaths, intent>>

Handle == HandleRead \/ HandleReplace \/ HandleWrite \/ WriteRaises \/ FinishWrite

FlagNext ==
    \/ \E e \in Editors : Open(e) \/ Edit(e) \/ Save(e)
    \/ \E f \in Flags, v \in Variants : FlagChanged(f, v)
    \/ Handle \/ Die \/ Start \/ Reload

FlagSpec == FlagInit /\ [][FlagNext]_flagVars

(***************************************************************************)
(* The GenServer, its supervisor and flagd's file watcher keep running.    *)
(* That flagd takes a file is only assumed of one that sets every flag.    *)
(***************************************************************************)
FairFlagSpec ==
    /\ FlagSpec
    /\ WF_flagVars(Handle) /\ WF_flagVars(Start)
    /\ WF_flagVars(Reload /\ Complete(file))

--------------------------------------------------------------------------------

Messages ==
    [op : {"read"}, from : Editors]
    \cup [op : {"replace"}, from : Editors, doc : Texts]
    \cup [op : {"write"}, flag : Flags, variant : Variants]

FlagTypeOK ==
    /\ {state, file, writing} \subseteq Texts \cup {Nothing}
    /\ mailbox \in Seq(Messages)
    /\ {content, base} \subseteq [Editors -> Texts \cup {Nothing}]
    /\ served \in [Flags -> Variants \cup {Unset}]
    /\ casts \in 0..MaxCasts /\ deaths \in 0..MaxDeaths
    /\ intent \in [Flags -> Variants \cup {AnyVariant}]

(***************************************************************************)
(* Between writes the file holds what the server answers reads with, so    *)
(* that a restart finds what was last answered.                            *)
(***************************************************************************)
StateIsInFile == Up /\ writing = Nothing => file = state

(***************************************************************************)
(* A change that a dashboard made and the server has taken, of a flag that *)
(* has a default variant in the server's document, stays in the file, over *)
(* changes of other flags by other dashboards and over restarts, until     *)
(* somebody replaces the document or writes the flag.  A dashboard that is *)
(* older than the document may show other flags: a change of one that the  *)
(* document does not set is dropped, and the dashboard says "Saved" of it. *)
(***************************************************************************)
DashboardChangesStay ==
    \A f \in Flags :
        file.shape \in {"flags", "bare"} => intent[f] \in {AnyVariant, file.flags[f]}

(***************************************************************************)
(* When nobody sends any more messages, all of them are dealt with, flagd  *)
(* serves what the server shows if that sets every flag, and the server is *)
(* up, whatever documents were saved: one on which a write raises is only  *)
(* a restart.  What a server does not come back from is a stop from        *)
(* outside that catches it in the middle of a write.                       *)
(***************************************************************************)
FlagsSettle ==
    <>[](\/ /\ Up /\ mailbox = <<>> /\ writing = Nothing
            /\ Complete(state) => served = state.flags
         \/ ~Up /\ file = Nothing /\ deaths > 0)

(***************************************************************************)
(* Conflicts are prevented: a document that replaces another one changes   *)
(* only flags of which its editor knew the value it replaces.              *)
(***************************************************************************)
ConflictsArePrevented ==
    [][\A e \in Editors :
          NextIs("replace") /\ Head(mailbox).from = e
              /\ writing'.shape = "flags" /\ state.shape = "flags" =>
                  \A f \in Flags : writing'.flags[f] # state.flags[f] =>
                                       base[e].flags[f] = state.flags[f]]_flagVars
================================================================================
