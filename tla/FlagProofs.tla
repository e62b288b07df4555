-------------------------------- MODULE FlagProofs --------------------------------
(***************************************************************************)
(* The flag document, proved for any flags, variants and editors, and any  *)
(* number of messages and stops.  Between the beginning and the end of a   *)
(* write the file says nothing of the state, so that what is written has   *)
(* to be remembered (InWriting), and so has what dashboards may expect of  *)
(* the server's document (Kept), which a restart reads from the file.      *)
(***************************************************************************)
EXTENDS FlagStorage, TLAPS

AnyDoc == Texts \cup {Nothing}

\* What a document says of a flag.
Settings == Variants \cup {Unset, NoMap}

\* A document that a write can change.
IsMap(doc) == doc.shape \in {"flags", "bare"}

\* The document being written is that of the first message.
InWriting ==
    writing # Nothing =>
        LET msg == Head(mailbox)
        IN /\ Up /\ file = Nothing /\ mailbox # <<>>
           /\ \/ msg.op = "replace" /\ writing = msg.doc
              \/ /\ msg.op = "write" /\ IsMap(state)
                 /\ writing = Doc(update_flag(state.flags, msg.flag, msg.variant))

\* Fits(doc): in doc, flags are as dashboards have made them.
Fits(doc) ==
    IsMap(doc) => \A f \in Flags : intent[f] \in {AnyVariant, doc.flags[f]}

Kept == Fits(state)

FlagInv ==
    FlagTypeOK /\ InWriting /\ StateIsInFile /\ Kept /\ DashboardChangesStay

--------------------------------------------------------------------------------
(* Documents and messages *)

LEMMA Shapes ==
  /\ Other.shape = "other" /\ Nothing.shape = "nothing" /\ Other # Nothing
  /\ Bare.shape = "bare" /\ Bare # Nothing
  /\ \A doc \in AnyDoc : /\ IsMap(doc) => doc.flags \in [Flags -> Settings]
                         /\ IsMap(doc) <=> doc \in Docs \cup {Bare}
                         /\ doc.shape = "flags" => doc \in Docs
                         /\ doc.shape = "other" <=> doc = Other
                         /\ doc.shape = "nothing" <=> doc = Nothing
  BY DEF Other, Nothing, Bare, AnyDoc, Texts, Docs, Doc, IsMap, Settings

LEMMA DocType ==
  ASSUME NEW flags \in [Flags -> Settings]
  PROVE  /\ Doc(flags) \in Docs /\ Doc(flags) # Nothing
         /\ Doc(flags).shape = "flags" /\ Doc(flags).flags = flags
  BY DEF Docs, Doc, Nothing, Settings

LEMMA MessageType ==
  ASSUME NEW msg \in Messages
  PROVE  /\ msg.op \in {"read", "replace", "write"}
         /\ msg.op = "read" => msg.from \in Editors
         /\ msg.op = "replace" => msg.from \in Editors /\ msg.doc \in Texts
         /\ msg.op = "write" => msg.flag \in Flags /\ msg.variant \in Variants
  BY DEF Messages

LEMMA HeadType ==
  ASSUME mailbox \in Seq(Messages), mailbox # <<>>
  PROVE  Head(mailbox) \in Messages /\ Tail(mailbox) \in Seq(Messages)
  OBVIOUS

LEMMA WantedType ==
  ASSUME NEW msg \in Messages, msg.op # "read", FlagTypeOK
  PROVE  Wanted(msg) \in [Flags -> Variants \cup {AnyVariant}]
  BY MessageType DEF FlagTypeOK, Wanted

\* What is being written is a document, and what dashboards then want is in it.
LEMMA WhatIsWritten ==
  ASSUME FlagInv, writing # Nothing
  PROVE  /\ Head(mailbox) \in Messages /\ Tail(mailbox) \in Seq(Messages)
         /\ writing \in AnyDoc /\ Head(mailbox).op # "read"
         /\ Head(mailbox).op = "replace" => Head(mailbox).from \in Editors
         /\ IsMap(writing) =>
               \A f \in Flags : Wanted(Head(mailbox))[f] \in {AnyVariant, writing.flags[f]}
<1>. DEFINE msg == Head(mailbox)
<1>1. /\ msg \in Messages /\ Tail(mailbox) \in Seq(Messages)
      /\ writing \in AnyDoc /\ state \in AnyDoc /\ msg.op \in {"replace", "write"}
  BY HeadType DEF FlagInv, FlagTypeOK, InWriting, AnyDoc
<1>2. CASE msg.op = "replace"
  BY <1>1, <1>2, MessageType DEF Wanted
<1>3. CASE msg.op = "write"
  <2>1. /\ IsMap(state) /\ state.flags \in [Flags -> Settings]
        /\ msg.flag \in Flags /\ msg.variant \in Variants
        /\ writing = Doc(update_flag(state.flags, msg.flag, msg.variant))
    BY <1>1, <1>3, Shapes, MessageType DEF FlagInv, InWriting
  <2>2. writing.flags = update_flag(state.flags, msg.flag, msg.variant)
    BY <2>1 DEF Doc
  <2>3. \A f \in Flags : intent[f] \in {AnyVariant, state.flags[f]}
    BY <2>1 DEF FlagInv, Kept, Fits, IsMap
  <2>4. \A f \in Flags : Wanted(msg)[f] \in {AnyVariant, writing.flags[f]}
    BY <1>3, <2>1, <2>2, <2>3 DEF FlagInv, FlagTypeOK, Wanted, update_flag
  <2>. QED
    BY <1>1, <1>3, <2>4
<1>. QED
  BY <1>1, <1>2, <1>3, MessageType DEF FlagInv, InWriting

--------------------------------------------------------------------------------
(* The steps *)

LEMMA FlagInvInit == FlagInit => FlagInv
<1>. SUFFICES ASSUME FlagInit PROVE FlagInv
  OBVIOUS
<1>1. Doc(Default) \in Docs /\ Doc(Default) # Nothing
  BY FlagAssumption, DocType DEF Settings
<1>2. FlagTypeOK
  BY <1>1, FlagAssumption DEF FlagInit, FlagTypeOK, Texts
<1>. QED
  BY <1>1, <1>2 DEF FlagInit, FlagInv, InWriting, StateIsInFile, Kept, Fits, IsMap,
                    DashboardChangesStay

LEMMA Posted ==
  ASSUME FlagInv, NEW msg \in Messages, Post(msg),
         UNCHANGED <<state, file, writing, content, base, served, deaths, intent>>
  PROVE  FlagInv'
<1>1. /\ mailbox' \in Seq(Messages)
      /\ mailbox # <<>> => mailbox' # <<>> /\ Head(mailbox') = Head(mailbox)
  BY DEF Post, FlagInv, FlagTypeOK
<1>2. casts' \in 0..MaxCasts
  BY FlagAssumption DEF Post, FlagInv, FlagTypeOK
<1>3. FlagTypeOK'
  BY <1>1, <1>2 DEF FlagInv, FlagTypeOK
<1>4. InWriting'
  BY <1>1 DEF FlagInv, InWriting, Up
<1>. QED
  BY <1>3, <1>4 DEF FlagInv, StateIsInFile, Kept, Fits, IsMap, DashboardChangesStay, Up

\* A step that leaves the server and the file alone.
Elsewhere ==
    UNCHANGED <<state, file, writing, mailbox, casts, deaths, intent>>

LEMMA ElsewhereKeeps ==
  ASSUME FlagInv, Elsewhere,
         content' \in [Editors -> AnyDoc], base' \in [Editors -> AnyDoc],
         served' \in [Flags -> Variants \cup {Unset}]
  PROVE  FlagInv'
  BY DEF FlagInv, FlagTypeOK, Elsewhere, AnyDoc, InWriting, StateIsInFile, Kept, Fits, IsMap,
         DashboardChangesStay, Up

LEMMA EditStep ==
  ASSUME FlagInv, NEW e \in Editors, Edit(e)
  PROVE  FlagInv'
<1>1. content' \in [Editors -> AnyDoc]
  BY DEF FlagInv, FlagTypeOK, Edit, AnyDoc
<1>. QED
  BY <1>1, ElsewhereKeeps DEF FlagInv, FlagTypeOK, Edit, Elsewhere, AnyDoc

LEMMA SaveStep ==
  ASSUME FlagInv, NEW e \in Editors, Save(e)
  PROVE  FlagInv'
<1>1. content[e] \in Texts
  BY DEF Save, FlagInv, FlagTypeOK
<1>2. [op |-> "replace", from |-> e, doc |-> content[e]] \in Messages
  BY <1>1 DEF Messages
<1>. QED
  BY <1>2, Posted DEF Save

LEMMA HandleReadStep ==
  ASSUME FlagInv, HandleRead
  PROVE  FlagInv'
<1>1. /\ Head(mailbox).from \in Editors /\ Tail(mailbox) \in Seq(Messages)
      /\ writing = Nothing
  BY HeadType, MessageType DEF HandleRead, NextIs, FlagInv, FlagTypeOK
<1>2. /\ content' \in [Editors -> AnyDoc] /\ base' \in [Editors -> AnyDoc]
  BY <1>1 DEF HandleRead, FlagInv, FlagTypeOK, AnyDoc
<1>3. FlagTypeOK'
  BY <1>1, <1>2 DEF HandleRead, FlagInv, FlagTypeOK, AnyDoc
<1>. QED
  BY <1>1, <1>3 DEF HandleRead, FlagInv, InWriting, StateIsInFile, Kept, Fits, IsMap,
                    DashboardChangesStay, Up

LEMMA BeginWriteStep ==
  ASSUME FlagInv, HandleReplace \/ HandleWrite
  PROVE  FlagInv'
<1>. DEFINE msg == Head(mailbox)
<1>1. msg \in Messages /\ Up /\ mailbox # <<>> /\ msg.op \in {"replace", "write"}
  BY HeadType DEF HandleReplace, HandleWrite, NextIs, FlagInv, FlagTypeOK
<1>2. /\ writing' \in AnyDoc
      /\ \/ msg.op = "replace" /\ writing' = msg.doc
         \/ /\ msg.op = "write" /\ IsMap(state)
            /\ writing' = Doc(update_flag(state.flags, msg.flag, msg.variant))
  <2>1. CASE HandleReplace
    BY <1>1, <2>1, MessageType DEF HandleReplace, NextIs, BeginWrite, AnyDoc
  <2>2. CASE HandleWrite
    <3>1. /\ IsMap(state) /\ state.flags \in [Flags -> Settings]
          /\ msg.op = "write" /\ msg.flag \in Flags /\ msg.variant \in Variants
      BY <1>1, <2>2, Shapes, MessageType
         DEF HandleWrite, Raises, NextIs, Up, FlagInv, FlagTypeOK, AnyDoc, Texts
    <3>2. update_flag(state.flags, msg.flag, msg.variant) \in [Flags -> Settings]
      BY <3>1 DEF update_flag, Settings
    <3>. QED
      BY <2>2, <3>1, <3>2, DocType DEF HandleWrite, BeginWrite, AnyDoc, Texts
  <2>. QED
    BY <2>1, <2>2
<1>3. /\ file' = Nothing
      /\ UNCHANGED <<state, mailbox, content, base, served, casts, deaths, intent>>
  BY DEF HandleReplace, HandleWrite, BeginWrite
<1>4. writing' # Nothing
  BY <1>1, <1>2, MessageType, Shapes DEF Texts, Docs, Doc
<1>5. FlagTypeOK'
  BY <1>2, <1>3 DEF FlagInv, FlagTypeOK, AnyDoc
<1>6. InWriting'
  BY <1>1, <1>2, <1>3 DEF InWriting, Up
<1>7. DashboardChangesStay'
  BY <1>3, Shapes DEF DashboardChangesStay
<1>. QED
  BY <1>3, <1>4, <1>5, <1>6, <1>7 DEF FlagInv, StateIsInFile, Kept, Fits, IsMap

LEMMA FinishWriteStep ==
  ASSUME FlagInv, FinishWrite
  PROVE  FlagInv'
<1>. DEFINE msg == Head(mailbox)
<1>1. /\ writing # Nothing
      /\ file' = writing /\ state' = writing /\ writing' = Nothing
      /\ mailbox' = Tail(mailbox) /\ intent' = Wanted(msg)
      /\ base' = IF msg.op = "replace" THEN [base EXCEPT ![msg.from] = writing] ELSE base
      /\ UNCHANGED <<content, served, casts, deaths>>
  BY DEF FinishWrite
<1>2. /\ msg \in Messages /\ Tail(mailbox) \in Seq(Messages) /\ writing \in AnyDoc
      /\ msg.op # "read" /\ (msg.op = "replace" => msg.from \in Editors)
      /\ IsMap(writing) =>
            \A f \in Flags : Wanted(msg)[f] \in {AnyVariant, writing.flags[f]}
  BY <1>1, WhatIsWritten
<1>3. base' \in [Editors -> AnyDoc]
  BY <1>1, <1>2 DEF FlagInv, FlagTypeOK, AnyDoc
<1>4. FlagTypeOK'
  BY <1>1, <1>2, <1>3, WantedType DEF FlagInv, FlagTypeOK, AnyDoc
<1>. QED
  BY <1>1, <1>2, <1>4 DEF FlagInv, InWriting, StateIsInFile, Kept, Fits, IsMap, DashboardChangesStay

\* The server goes, and the file holds what it held or what was being written.
LEMMA ServerGoneStep ==
  ASSUME FlagInv, ServerGone, file' \in {file} \cup ({writing} \ {Nothing}),
         content' \in [Editors -> AnyDoc], base' \in [Editors -> AnyDoc],
         deaths' \in 0..MaxDeaths, UNCHANGED <<served, casts>>
  PROVE  FlagInv'
<1>1. /\ intent' \in [Flags -> Variants \cup {AnyVariant}]
      /\ DashboardChangesStay'
  <2>1. CASE writing = Nothing
    BY <2>1 DEF ServerGone, FlagInv, FlagTypeOK, DashboardChangesStay
  <2>2. CASE writing # Nothing
    <3>1. intent' = Wanted(Head(mailbox)) /\ file = Nothing
      BY <2>2 DEF ServerGone, FlagInv, InWriting
    <3>2. file' = writing \/ file'.shape = "nothing"
      BY <3>1, Shapes
    <3>. QED
      BY <2>2, <3>1, <3>2, WhatIsWritten, WantedType DEF FlagInv, DashboardChangesStay, IsMap
  <2>. QED
    BY <2>1, <2>2
<1>2. FlagTypeOK'
  BY <1>1 DEF ServerGone, FlagInv, FlagTypeOK, AnyDoc
<1>. QED
  BY <1>1, <1>2, Shapes
  DEF ServerGone, FlagInv, InWriting, StateIsInFile, Kept, Fits, IsMap, Up

LEMMA WriteRaisesStep ==
  ASSUME FlagInv, WriteRaises
  PROVE  FlagInv'
  BY ServerGoneStep DEF WriteRaises, FlagInv, FlagTypeOK, AnyDoc

LEMMA DieStep ==
  ASSUME FlagInv, Die
  PROVE  FlagInv'
<1>1. content' \in [Editors -> AnyDoc] /\ base' \in [Editors -> AnyDoc]
  BY DEF Die, AnyDoc
<1>2. deaths' \in 0..MaxDeaths
  BY FlagAssumption DEF Die, FlagInv, FlagTypeOK
<1>. QED
  BY <1>1, <1>2, ServerGoneStep DEF Die

LEMMA StartStep ==
  ASSUME FlagInv, Start
  PROVE  FlagInv'
<1>1. writing = Nothing
  BY DEF Start, FlagInv, InWriting
<1>. QED
  BY <1>1 DEF Start, FlagInv, FlagTypeOK, InWriting, StateIsInFile, Kept, Fits, IsMap,
              DashboardChangesStay, Up

LEMMA ReloadStep ==
  ASSUME FlagInv, Reload
  PROVE  FlagInv'
<1>1. file.flags \in [Flags -> Settings]
  BY Shapes DEF Reload, FlagInv, FlagTypeOK, AnyDoc, IsMap
<1>2. served' \in [Flags -> Variants \cup {Unset}]
  BY <1>1 DEF Reload, Settings
<1>. QED
  BY <1>2, ElsewhereKeeps DEF Reload, Elsewhere, FlagInv, FlagTypeOK, AnyDoc

LEMMA FlagInvStep == FlagInv /\ [FlagNext]_flagVars => FlagInv'
<1>. SUFFICES ASSUME FlagInv, [FlagNext]_flagVars PROVE FlagInv'
  OBVIOUS
<1>1. ASSUME NEW e \in Editors, Open(e) PROVE FlagInv'
  <2>1. [op |-> "read", from |-> e] \in Messages
    BY DEF Messages
  <2>. QED
    BY <1>1, <2>1, Posted DEF Open
<1>2. ASSUME NEW e \in Editors, Edit(e) PROVE FlagInv'
  BY <1>2, EditStep
<1>3. ASSUME NEW e \in Editors, Save(e) PROVE FlagInv'
  BY <1>3, SaveStep
<1>4. ASSUME NEW f \in Flags, NEW v \in Variants, FlagChanged(f, v) PROVE FlagInv'
  <2>1. [op |-> "write", flag |-> f, variant |-> v] \in Messages
    BY DEF Messages
  <2>. QED
    BY <1>4, <2>1, Posted DEF FlagChanged
<1>5. CASE HandleRead
  BY <1>5, HandleReadStep
<1>6. CASE HandleReplace \/ HandleWrite
  BY <1>6, BeginWriteStep
<1>7. CASE WriteRaises
  BY <1>7, WriteRaisesStep
<1>8. CASE FinishWrite
  BY <1>8, FinishWriteStep
<1>9. CASE Die
  BY <1>9, DieStep
<1>10. CASE Start
  BY <1>10, StartStep
<1>11. CASE Reload
  BY <1>11, ReloadStep
<1>12. CASE UNCHANGED flagVars
  BY <1>12, ElsewhereKeeps DEF flagVars, Elsewhere, FlagInv, FlagTypeOK, AnyDoc
<1>. QED
  BY <1>1, <1>2, <1>3, <1>4, <1>5, <1>6, <1>7, <1>8, <1>9, <1>10, <1>11, <1>12
  DEF FlagNext, Handle

LEMMA FlagInvariant == FlagSpec => []FlagInv
  BY FlagInvInit, FlagInvStep, PTL DEF FlagSpec

--------------------------------------------------------------------------------

(***************************************************************************)
(* Documents, messages and what is expected of flags stay of their types.  *)
(***************************************************************************)
THEOREM FlagTypeCorrect == FlagSpec => []FlagTypeOK
<1>1. FlagInv => FlagTypeOK
  BY DEF FlagInv
<1>. QED
  BY <1>1, FlagInvariant, PTL

(***************************************************************************)
(* Between writes the file holds what the server answers reads with.       *)
(***************************************************************************)
THEOREM StateIsInFileHolds == FlagSpec => []StateIsInFile
<1>1. FlagInv => StateIsInFile
  BY DEF FlagInv
<1>. QED
  BY <1>1, FlagInvariant, PTL

(***************************************************************************)
(* A dashboard's change of a flag that the document sets stays until the   *)
(* document is replaced or the flag is written again, over stops in the    *)
(* middle of a write and restarts, whatever documents editors save.        *)
(***************************************************************************)
THEOREM DashboardChangesStayHolds == FlagSpec => []DashboardChangesStay
<1>1. FlagInv => DashboardChangesStay
  BY DEF FlagInv
<1>. QED
  BY <1>1, FlagInvariant, PTL
================================================================================
