------------------------- MODULE FileTransferProofs -------------------------
(***************************************************************************)
(* Proofs about FileTransfer, for any number of transfers, chunks, credit  *)
(* and streams: what each end knows of the other follows from what is on   *)
(* the way between them.  The invariant counts the frames of each kind on  *)
(* the two wires; a step moves one transfer, and a lemma per step shows    *)
(* what is kept of that one.                                               *)
(***************************************************************************)
EXTENDS FileTransfer, FiniteSetTheorems, SequenceTheorems, TLAPS

-----------------------------------------------------------------------------
(* File transfers: the inductive invariant.                                 *)

ToAgentFrames == [type : {"open", "data", "window", "close", "error"}, t : Transfers]
ToCoreFrames == [type : {"accepted", "data", "window", "error", "peer_close", "download_complete"}, t : Transfers]
ClientKids == [state : {"none", "opening", "open", "done"}, accepted : BOOLEAN, closing : BOOLEAN,
               failed : BOOLEAN, completing : BOOLEAN, credit : Nat, queued : Nat]
ServedKids == [state : {"none", "open", "closed"}, credit : Nat, chunks : Nat,
               stage : {"none", "open", "removed", "left"}, sized : BOOLEAN,
               forward : {"none", "ready", "holding", "complete", "returned"}]
Progress == [step : {"idle", "reading", "holding", "ended"}, count : Nat]

\* The types, without the bounds of the counters.
FileTypes ==
    /\ framesToAgent \in Seq(ToAgentFrames) /\ toCore \in Seq(ToCoreFrames)
    /\ op \in [Transfers -> {"none", "reserved", "listed", "gone"}]
    /\ kid \in [Transfers -> ClientKids] /\ stream \in [Transfers -> Progress]
    /\ commit \in [Transfers -> CallSteps] /\ cancel \in [Transfers -> CallSteps]
    /\ agentKid \in [Transfers -> ServedKids]
    /\ destination \in Uploads \cup {NoTransfer, LocalFile}

FileFlags == parentDone \in BOOLEAN /\ agentDone \in BOOLEAN

\* How often a frame is on the way, and that none of one kind follows one of another.
Places(wire, type, t) == {i \in 1..Len(wire) : wire[i] = FileFrame(type, t)}
OnWire(wire, type, t) == Cardinality(Places(wire, type, t))
SentToAgent(type, t) == OnWire(framesToAgent, type, t)
SentToCore(type, t) == OnWire(toCore, type, t)
NoneFollows(wire, before, type, t) ==
    \A i, j \in 1..Len(wire) : wire[i] = FileFrame(before, t) /\ i < j => wire[j] # FileFrame(type, t)
DataThenClose(t) == NoneFollows(framesToAgent, "close", "data", t)
DataThenComplete(t) == NoneFollows(toCore, "download_complete", "data", t)

\* How far a transfer has come at either end, and what can be on the way then.
Reached(t) ==
    /\ op[t] = "none" => kid[t].state = "none"
    /\ op[t] \in {"reserved", "listed"} => kid[t].state # "none"
    /\ op[t] = "listed" => kid[t].accepted
    /\ kid[t].accepted => kid[t].state \in {"open", "done"} /\ agentKid[t].state # "none"
    /\ kid[t].state = "open" => kid[t].accepted
    /\ ~kid[t].accepted =>
          /\ stream[t].step = "idle" /\ stream[t].count = 0 /\ commit[t] = "idle" /\ cancel[t] = "idle"
          /\ kid[t].queued = 0 /\ (t \in Uploads => kid[t].credit = 0)
          /\ SentToAgent("data", t) = 0 /\ SentToAgent("window", t) = 0 /\ SentToAgent("close", t) = 0
          /\ SentToAgent("error", t) = 0 /\ SentToCore("window", t) = 0
    /\ kid[t].state = "none" => SentToAgent("open", t) = 0 /\ agentKid[t].state = "none"
    /\ SentToAgent("open", t) <= 1
    /\ agentKid[t].state # "none" => SentToAgent("open", t) = 0
    /\ agentKid[t].state = "none" =>
          /\ agentKid[t].chunks = 0 /\ agentKid[t].credit = 0 /\ agentKid[t].forward = "none"
          /\ SentToCore("accepted", t) = 0 /\ SentToCore("data", t) = 0 /\ SentToCore("window", t) = 0
          /\ SentToCore("error", t) = 0 /\ SentToCore("peer_close", t) = 0
          /\ SentToCore("download_complete", t) = 0

\* What has ended, and where; a stream that is open at the agent, or will be, and
\* that the Core has not closed is open in the Core.
EndsKnown(t) ==
    /\ SentToCore("error", t) > 0 \/ SentToCore("peer_close", t) > 0 => agentKid[t].state = "closed"
    /\ parentDone => kid[t].state \in {"none", "done"}
    /\ agentDone => agentKid[t].state # "open"
    /\ agentKid[t].stage = "open" => t \in Uploads /\ agentKid[t].state = "open"
    /\ ~parentDone /\ ~agentDone /\ (agentKid[t].state = "open" \/ SentToAgent("open", t) > 0)
         /\ SentToAgent("close", t) = 0 => kid[t].state \in {"opening", "open"}

Writing(t) == IF stream[t].step = "holding" THEN 1 ELSE 0
Forwarding(t) == IF agentKid[t].forward = "holding" THEN 1 ELSE 0

\* An upload: its credit, and where its chunks are.
UploadSound(t) ==
    /\ stream[t].step \in {"idle", "holding"} /\ agentKid[t].forward = "none" /\ kid[t].queued = 0
    /\ SentToCore("download_complete", t) = 0
    /\ agentKid[t].credit <= FileWindow /\ agentKid[t].chunks <= FileChunks
    /\ stream[t].count + Writing(t) <= FileChunks
    /\ kid[t].credit + Writing(t) + SentToAgent("data", t) + SentToCore("window", t) <= FileWindow
    /\ commit[t] # "idle" => stream[t].step = "idle"
    /\ SentToAgent("close", t) > 0 => commit[t] \notin {"idle", "looked"}
    /\ agentKid[t].state # "closed" /\ ~agentDone /\ (~parentDone \/ SentToAgent("close", t) > 0) =>
          agentKid[t].chunks + SentToAgent("data", t) = stream[t].count
    /\ DataThenClose(t)

\* A download: the client's window, the agent's credit, and where its chunks are.
AgentWindow(t) ==
    agentKid[t].credit + Forwarding(t) + SentToCore("data", t) + kid[t].queued + Writing(t) + SentToAgent("window", t)
DownloadChunks(t) ==
    agentKid[t].chunks + Forwarding(t) + SentToCore("data", t) + kid[t].queued + stream[t].count

DownloadSound(t) ==
    /\ commit[t] = "idle" /\ SentToCore("window", t) = 0
    /\ kid[t].credit + kid[t].queued + Writing(t) <= FileWindow
    /\ AgentWindow(t) <= FileWindow
    /\ ~parentDone /\ ~agentDone /\ kid[t].state \in {"opening", "open"} /\ agentKid[t].state = "open" =>
          AgentWindow(t) = FileWindow
    /\ DownloadChunks(t) <= FileChunks
    /\ agentKid[t].forward # "none" /\ ~parentDone /\ (~agentDone \/ SentToCore("download_complete", t) > 0) =>
          DownloadChunks(t) = FileChunks
    /\ agentKid[t].forward = "complete" => agentKid[t].chunks = 0
    /\ SentToCore("download_complete", t) > 0 => agentKid[t].forward = "returned" /\ agentKid[t].chunks = 0
    /\ DataThenComplete(t)
    /\ kid[t].state = "done" /\ ~kid[t].failed /\ ~kid[t].closing /\ ~parentDone =>
          stream[t].count + kid[t].queued = FileChunks

\* The children that are open at the agent when it comes to the i-th frame.
OpenBy(i) ==
    {t \in Transfers :
        /\ agentKid[t].state = "open" \/ \E j \in Places(framesToAgent, "open", t) : j < i
        /\ \A j \in Places(framesToAgent, "close", t) : j >= i}

\* The agent has room for every stream the Core has asked for.
Room ==
    /\ IsFiniteSet(FileStreams)
    /\ \A i \in 1..Len(framesToAgent) : framesToAgent[i].type = "open" =>
          IsFiniteSet(OpenBy(i)) /\ Cardinality(OpenBy(i)) < FileStreamLimit

\* An end that is gone reads nothing.
WiresClosed == (parentDone => toCore = <<>>) /\ (agentDone => framesToAgent = <<>>)

FileSound ==
    \A t \in Transfers :
        Reached(t) /\ EndsKnown(t) /\ (t \in Uploads => UploadSound(t)) /\ (t \in Downloads => DownloadSound(t))

FileInv == FileTypes /\ FileFlags /\ WiresClosed /\ Room /\ FileSound

-----------------------------------------------------------------------------
(* What is on the way.                                                      *)

\* A wire holds finitely many frames of each kind, and an empty one none.
LEMMA OnWireIsNat ==
    ASSUME NEW S, NEW wire \in Seq(S)
    PROVE  \A type, t : IsFiniteSet(Places(wire, type, t)) /\ OnWire(wire, type, t) \in Nat
<1>1. Len(wire) \in Nat
  BY LenProperties
<1>2. IsFiniteSet(1..Len(wire))
  BY <1>1, FS_Interval
<1>3. \A type, t : Places(wire, type, t) \in SUBSET (1..Len(wire))
  BY DEF Places
<1>4. QED
  BY <1>2, <1>3, FS_Subset, FS_CardinalityType DEF OnWire

\* Nothing is on an empty wire.
LEMMA EmptyWire == \A type, t : OnWire(<<>>, type, t) = 0 /\ \A before : NoneFollows(<<>>, before, type, t)
<1>1. \A type, t : Places(<<>>, type, t) = {}
  BY DEF Places
<1>2. QED
  BY <1>1, FS_EmptySet DEF OnWire, NoneFollows

\* Two frames are the same if their types and their transfers are.
LEMMA FrameEqual ==
    \A type, t, type0, t0 : (FileFrame(type, t) = FileFrame(type0, t0)) <=> (type = type0 /\ t = t0)
BY DEF FileFrame

\* A frame that is written is one more of its kind.
LEMMA WriteOnWire ==
    ASSUME NEW S, NEW wire \in Seq(S), NEW type0, NEW t0, FileFrame(type0, t0) \in S
    PROVE  /\ Append(wire, FileFrame(type0, t0)) \in Seq(S)
           /\ \A type, t : OnWire(Append(wire, FileFrame(type0, t0)), type, t) =
                 OnWire(wire, type, t) + (IF type = type0 /\ t = t0 THEN 1 ELSE 0)
           /\ \A before, type, t : NoneFollows(wire, before, type, t) /\ before # type
                 /\ (type = type0 /\ t = t0 => OnWire(wire, before, t) = 0) =>
                     NoneFollows(Append(wire, FileFrame(type0, t0)), before, type, t)
<1> DEFINE f == FileFrame(type0, t0)
           k == Len(wire) + 1
           more == Append(wire, f)
<1>1. Len(wire) \in Nat /\ k \in Nat /\ k \notin 1..Len(wire)
  BY LenProperties
<1>2. more \in Seq(S) /\ Len(more) = k /\ more[k] = f /\ \A j \in 1..Len(wire) : more[j] = wire[j]
  BY AppendProperties, LenProperties
<1> HIDE DEF more
<1>3. ASSUME NEW type, NEW t, type = type0, t = t0
      PROVE  OnWire(more, type, t) = OnWire(wire, type, t) + 1
  <2>1. Places(more, type, t) = Places(wire, type, t) \cup {k}
    BY <1>1, <1>2, <1>3 DEF Places
  <2>2. k \notin Places(wire, type, t)
    BY <1>1 DEF Places
  <2>3. QED
    BY <2>1, <2>2, OnWireIsNat, FS_AddElement DEF OnWire
<1>4. ASSUME NEW type, NEW t, ~(type = type0 /\ t = t0)
      PROVE  OnWire(more, type, t) = OnWire(wire, type, t) + 0
  <2>1. f # FileFrame(type, t)
    BY <1>4, FrameEqual
  <2>2. Places(more, type, t) = Places(wire, type, t)
    BY <1>1, <1>2, <2>1 DEF Places
  <2>3. QED
    BY <2>2, OnWireIsNat DEF OnWire
<1>5. ASSUME NEW before, NEW type, NEW t, NoneFollows(wire, before, type, t), before # type,
             type = type0 /\ t = t0 => OnWire(wire, before, t) = 0
      PROVE  NoneFollows(more, before, type, t)
  <2>1. CASE type = type0 /\ t = t0
    <3>1. Places(wire, before, t) = {}
      BY <1>5, <2>1, OnWireIsNat, FS_EmptySet DEF OnWire
    <3>2. f # FileFrame(before, t)
      BY <1>5, <2>1, FrameEqual
    <3>3. \A i \in 1..Len(more) : more[i] # FileFrame(before, t)
      BY <1>1, <1>2, <3>1, <3>2 DEF Places
    <3>4. QED
      BY <3>3 DEF NoneFollows
  <2>2. CASE ~(type = type0 /\ t = t0)
    <3>1. f # FileFrame(type, t)
      BY <2>2, FrameEqual
    <3>2. QED
      BY <1>1, <1>2, <1>5, <3>1 DEF NoneFollows
  <2>3. QED
    BY <2>1, <2>2
<1>6. QED
  BY <1>2, <1>3, <1>4, <1>5 DEF more

\* A frame that is read is one less of its kind, and those it must follow are gone.
LEMMA ReadFromWire ==
    ASSUME NEW S, NEW wire \in Seq(S), wire # <<>>, NEW type0, NEW t0, Head(wire) = FileFrame(type0, t0)
    PROVE  /\ Tail(wire) \in Seq(S)
           /\ \A type, t : OnWire(wire, type, t) =
                 OnWire(Tail(wire), type, t) + (IF type = type0 /\ t = t0 THEN 1 ELSE 0)
           /\ \A before, type, t : NoneFollows(wire, before, type, t) => NoneFollows(Tail(wire), before, type, t)
           /\ \A type : NoneFollows(wire, type0, type, t0) => OnWire(Tail(wire), type, t0) = 0
<1> DEFINE rest == Tail(wire)
<1>1. Len(wire) \in Nat /\ Len(wire) >= 1 /\ wire[1] = FileFrame(type0, t0) /\ rest \in Seq(S)
  BY HeadTailProperties, LenProperties, EmptySeq
<1>2. Len(rest) = Len(wire) - 1 /\ \A j \in 1..(Len(wire) - 1) : rest[j] = wire[j + 1]
  BY <1>1, HeadTailProperties, LenProperties
<1> HIDE DEF rest
<1>3. ASSUME NEW type, NEW t PROVE OnWire(wire, type, t) = OnWire(rest, type, t) + (IF type = type0 /\ t = t0 THEN 1 ELSE 0)
  <2> DEFINE later == Places(wire, type, t) \ {1}
             new == Places(rest, type, t)
  <2>1. ExistsBijection(new, later)
    <3> DEFINE g == [i \in new |-> i + 1]
    <3>1. \A i \in new : i \in 1..(Len(wire) - 1) /\ wire[i + 1] = FileFrame(type, t)
      BY <1>1, <1>2 DEF Places
    <3>2. \A i \in later : i \in 2..Len(wire) /\ wire[i] = FileFrame(type, t)
      BY <1>1 DEF Places
    <3>3. \A i \in new : i + 1 \in later
      BY <1>1, <3>1 DEF Places
    <3>4. \A i \in later : i - 1 \in 1..(Len(wire) - 1) /\ (i - 1) + 1 = i
      BY <1>1, <3>2
    <3>5. \A i \in later : i - 1 \in new
      <4> SUFFICES ASSUME NEW i \in later PROVE i - 1 \in new
        OBVIOUS
      <4>1. rest[i - 1] = wire[(i - 1) + 1]
        BY <1>2, <3>4
      <4>2. rest[i - 1] = FileFrame(type, t) /\ i - 1 \in 1..Len(rest)
        BY <1>2, <3>2, <3>4, <4>1
      <4>3. QED
        BY <4>2 DEF Places
    <3>6. g \in Injection(new, later)
      BY <3>1, <3>3 DEF Injection, IsInjective
    <3>7. ASSUME NEW q \in later PROVE \E p \in new : g[p] = q
      BY <3>4, <3>5
    <3>8. g \in Surjection(new, later)
      BY <3>3, <3>7 DEF Surjection
    <3>9. QED
      BY <3>6, <3>8 DEF ExistsBijection, Bijection
  <2>2. IsFiniteSet(new) /\ Cardinality(new) \in Nat /\ IsFiniteSet(Places(wire, type, t))
    BY <1>1, OnWireIsNat DEF OnWire
  <2>3. IsFiniteSet(later) /\ Cardinality(later) = Cardinality(new)
    BY <2>1, <2>2, FS_Bijection
  <2>4. (1 \in Places(wire, type, t)) <=> (type = type0 /\ t = t0)
    BY <1>1, FrameEqual DEF Places
  <2>5. CASE 1 \in Places(wire, type, t)
    <3>1. Places(wire, type, t) = later \cup {1} /\ 1 \notin later
      BY <2>5
    <3> HIDE DEF later, new
    <3>2. Cardinality(Places(wire, type, t)) = Cardinality(later) + 1
      BY <2>3, <3>1, FS_AddElement
    <3>3. QED
      BY <2>3, <2>4, <2>5, <3>2 DEF OnWire, new
  <2>6. CASE 1 \notin Places(wire, type, t)
    <3>1. Places(wire, type, t) = later
      BY <2>6
    <3> HIDE DEF later
    <3>2. QED
      BY <2>2, <2>3, <2>4, <2>6, <3>1 DEF OnWire
  <2>7. QED
    BY <2>5, <2>6
<1>4. ASSUME NEW before, NEW type, NEW t, NoneFollows(wire, before, type, t)
      PROVE  NoneFollows(rest, before, type, t)
  <2> SUFFICES ASSUME NEW i \in 1..Len(rest), NEW j \in 1..Len(rest), rest[i] = FileFrame(before, t), i < j
               PROVE  rest[j] # FileFrame(type, t)
    BY DEF NoneFollows
  <2>1. i + 1 \in 1..Len(wire) /\ j + 1 \in 1..Len(wire) /\ i + 1 < j + 1
    BY <1>1, <1>2
  <2>2. rest[i] = wire[i + 1] /\ rest[j] = wire[j + 1]
    BY <1>1, <1>2
  <2>3. QED
    BY <1>4, <2>1, <2>2 DEF NoneFollows
<1>5. ASSUME NEW type, NoneFollows(wire, type0, type, t0) PROVE OnWire(rest, type, t0) = 0
  <2>1. Places(rest, type, t0) = {}
    <3> SUFFICES ASSUME NEW i \in 1..Len(rest) PROVE rest[i] # FileFrame(type, t0)
      BY DEF Places
    <3>1. rest[i] = wire[i + 1] /\ i + 1 \in 1..Len(wire) /\ 1 < i + 1 /\ 1 \in 1..Len(wire)
      BY <1>1, <1>2
    <3>2. QED
      BY <1>1, <1>5, <3>1 DEF NoneFollows
  <2>2. QED
    BY <2>1, FS_EmptySet DEF OnWire
<1>6. QED
  BY <1>1, <1>3, <1>4, <1>5 DEF rest

-----------------------------------------------------------------------------
(* What the steps do to the wires.                                          *)

\* All that is said of one transfer.
SoundTransfer(t) ==
    Reached(t) /\ EndsKnown(t) /\ (t \in Uploads => UploadSound(t)) /\ (t \in Downloads => DownloadSound(t))

\* The counters are numbers, and so is what is on the way.
LEMMA FileNumbers ==
    ASSUME FileTypes
    PROVE  /\ \A type, t : SentToAgent(type, t) \in Nat /\ SentToCore(type, t) \in Nat
           /\ \A t \in Transfers :
                 /\ kid[t] \in ClientKids /\ stream[t] \in Progress /\ agentKid[t] \in ServedKids
                 /\ kid[t].credit \in Nat /\ kid[t].queued \in Nat /\ stream[t].count \in Nat
                 /\ agentKid[t].credit \in Nat /\ agentKid[t].chunks \in Nat
                 /\ Writing(t) \in Nat /\ Forwarding(t) \in Nat
           /\ FileWindow \in Nat /\ FileChunks \in Nat /\ FileStreamLimit \in Nat
           /\ FileWindow > 0 /\ FileChunks > 0
           /\ \A t \in Transfers : t \in Uploads <=> t \notin Downloads
<1>1. \A type, t : SentToAgent(type, t) \in Nat /\ SentToCore(type, t) \in Nat
  BY OnWireIsNat DEF FileTypes, SentToAgent, SentToCore
<1>2. \A t \in Transfers :
                 /\ kid[t] \in ClientKids /\ stream[t] \in Progress /\ agentKid[t] \in ServedKids
                 /\ kid[t].credit \in Nat /\ kid[t].queued \in Nat /\ stream[t].count \in Nat
                 /\ agentKid[t].credit \in Nat /\ agentKid[t].chunks \in Nat
                 /\ Writing(t) \in Nat /\ Forwarding(t) \in Nat
  BY DEF FileTypes, ClientKids, Progress, ServedKids, Writing, Forwarding
<1>3. QED
  BY <1>1, <1>2, FileTransferAssumption DEF Transfers

\* What is on the way of one transfer.
AgentSame(t) ==
    /\ \A type : SentToAgent(type, t)' = SentToAgent(type, t)
    /\ DataThenClose(t) => DataThenClose(t)'
CoreSame(t) ==
    /\ \A type : SentToCore(type, t)' = SentToCore(type, t)
    /\ DataThenComplete(t) => DataThenComplete(t)'
AgentAt(n, type0, t) ==
    /\ SentToAgent(type0, t)' = SentToAgent(type0, t) + n
    /\ \A type : type # type0 => SentToAgent(type, t)' = SentToAgent(type, t)
    /\ DataThenClose(t) /\ (type0 = "data" /\ n = 1 => SentToAgent("close", t) = 0) => DataThenClose(t)'
CoreAt(n, type0, t) ==
    /\ SentToCore(type0, t)' = SentToCore(type0, t) + n
    /\ \A type : type # type0 => SentToCore(type, t)' = SentToCore(type, t)
    /\ DataThenComplete(t) /\ (type0 = "data" /\ n = 1 => SentToCore("download_complete", t) = 0) => DataThenComplete(t)'

AgentLess(type0, t) ==
    /\ SentToAgent(type0, t)' \in Nat /\ SentToAgent(type0, t) = SentToAgent(type0, t)' + 1
    /\ \A type : type # type0 => SentToAgent(type, t)' = SentToAgent(type, t)
    /\ DataThenClose(t) => DataThenClose(t)'
    /\ type0 = "close" /\ DataThenClose(t) => SentToAgent("data", t)' = 0
CoreLess(type0, t) ==
    /\ SentToCore(type0, t)' \in Nat /\ SentToCore(type0, t) = SentToCore(type0, t)' + 1
    /\ \A type : type # type0 => SentToCore(type, t)' = SentToCore(type, t)
    /\ DataThenComplete(t) => DataThenComplete(t)'
    /\ type0 = "download_complete" /\ DataThenComplete(t) => SentToCore("data", t)' = 0

\* There are n more frames of one kind on the way to the agent (or fewer, if n is -1), ...
AgentWire(n, type0, t0) ==
    /\ framesToAgent' \in Seq(ToAgentFrames)
    /\ SentToAgent(type0, t0)' = SentToAgent(type0, t0) + n
    /\ \A type, t : type # type0 \/ t # t0 => SentToAgent(type, t)' = SentToAgent(type, t)
    /\ \A t : DataThenClose(t) /\ (type0 = "data" /\ t = t0 /\ n = 1 => SentToAgent("close", t) = 0) => DataThenClose(t)'

\* A frame the Core writes reaches the wire while the agent is there.
LEMMA CoreWriting ==
    ASSUME FileTypes, NEW f \in ToAgentFrames, CoreWrites(f)
    PROVE  (agentDone => AgentWire(0, f.type, f.t)) /\ (~agentDone => AgentWire(1, f.type, f.t))
<1>1. f = FileFrame(f.type, f.t)
  BY DEF ToAgentFrames, FileFrame
<1>2. framesToAgent \in Seq(ToAgentFrames) /\ \A type, t : SentToAgent(type, t) \in Nat
  BY FileNumbers DEF FileTypes
<1>3. CASE agentDone
  BY <1>2, <1>3 DEF CoreWrites, AgentWire, SentToAgent, DataThenClose
<1>4. CASE ~agentDone
  <2>1. framesToAgent' = Append(framesToAgent, FileFrame(f.type, f.t))
    BY <1>1, <1>4 DEF CoreWrites
  <2>2. QED
    BY <1>1, <1>2, <1>4, <2>1, WriteOnWire DEF AgentWire, SentToAgent, DataThenClose
<1>5. QED
  BY <1>3, <1>4

\* ... or to the Core.
CoreWire(n, type0, t0) ==
    /\ toCore' \in Seq(ToCoreFrames)
    /\ SentToCore(type0, t0)' = SentToCore(type0, t0) + n
    /\ \A type, t : type # type0 \/ t # t0 => SentToCore(type, t)' = SentToCore(type, t)
    /\ \A t : DataThenComplete(t) /\ (type0 = "data" /\ t = t0 /\ n = 1 => SentToCore("download_complete", t) = 0) =>
                  DataThenComplete(t)'

\* A frame the agent writes reaches the wire while the Core is there.
LEMMA AgentWriting ==
    ASSUME FileTypes, NEW f \in ToCoreFrames, AgentWrites(f)
    PROVE  (parentDone => CoreWire(0, f.type, f.t)) /\ (~parentDone => CoreWire(1, f.type, f.t))
<1>1. f = FileFrame(f.type, f.t)
  BY DEF ToCoreFrames, FileFrame
<1>2. toCore \in Seq(ToCoreFrames) /\ \A type, t : SentToCore(type, t) \in Nat
  BY FileNumbers DEF FileTypes
<1>3. CASE parentDone
  BY <1>2, <1>3 DEF AgentWrites, CoreWire, SentToCore, DataThenComplete
<1>4. CASE ~parentDone
  <2>1. toCore' = Append(toCore, FileFrame(f.type, f.t))
    BY <1>1, <1>4 DEF AgentWrites
  <2>2. QED
    BY <1>1, <1>2, <1>4, <2>1, WriteOnWire DEF CoreWire, SentToCore, DataThenComplete
<1>5. QED
  BY <1>3, <1>4

\* A frame that is read is on the way no more, and one that must follow others comes last.
LEMMA AgentReading ==
    ASSUME FileTypes, framesToAgent # <<>>, NEW type0, NEW t0, Head(framesToAgent) = FileFrame(type0, t0),
           framesToAgent' = Tail(framesToAgent)
    PROVE  /\ framesToAgent' \in Seq(ToAgentFrames)
           /\ AgentLess(type0, t0)
           /\ \A t : t # t0 => AgentSame(t)
<1>1. framesToAgent \in Seq(ToAgentFrames) /\ Tail(framesToAgent) \in Seq(ToAgentFrames)
  BY HeadTailProperties DEF FileTypes
<1>2. \A type, t : SentToAgent(type, t) \in Nat /\ SentToAgent(type, t)' \in Nat
  BY <1>1, OnWireIsNat DEF SentToAgent
<1>3. /\ framesToAgent' \in Seq(ToAgentFrames)
      /\ \A type, t : SentToAgent(type, t) = SentToAgent(type, t)' + (IF type = type0 /\ t = t0 THEN 1 ELSE 0)
      /\ \A t : DataThenClose(t) => DataThenClose(t)'
      /\ type0 = "close" /\ DataThenClose(t0) => SentToAgent("data", t0)' = 0
  BY <1>1, ReadFromWire DEF SentToAgent, DataThenClose
<1>4. SentToAgent(type0, t0) = SentToAgent(type0, t0)' + 1
  BY <1>3
<1>5. \A type, t : type # type0 \/ t # t0 => SentToAgent(type, t)' = SentToAgent(type, t)
  BY <1>2, <1>3
<1>6. QED
  BY <1>2, <1>3, <1>4, <1>5 DEF AgentLess, AgentSame

\* The same in the Core.
LEMMA CoreReading ==
    ASSUME FileTypes, toCore # <<>>, NEW type0, NEW t0, Head(toCore) = FileFrame(type0, t0),
           toCore' = Tail(toCore)
    PROVE  /\ toCore' \in Seq(ToCoreFrames)
           /\ CoreLess(type0, t0)
           /\ \A t : t # t0 => CoreSame(t)
<1>1. toCore \in Seq(ToCoreFrames) /\ Tail(toCore) \in Seq(ToCoreFrames)
  BY HeadTailProperties DEF FileTypes
<1>2. \A type, t : SentToCore(type, t) \in Nat /\ SentToCore(type, t)' \in Nat
  BY <1>1, OnWireIsNat DEF SentToCore
<1>3. /\ toCore' \in Seq(ToCoreFrames)
      /\ \A type, t : SentToCore(type, t) = SentToCore(type, t)' + (IF type = type0 /\ t = t0 THEN 1 ELSE 0)
      /\ \A t : DataThenComplete(t) => DataThenComplete(t)'
      /\ type0 = "download_complete" /\ DataThenComplete(t0) => SentToCore("data", t0)' = 0
  BY <1>1, ReadFromWire DEF SentToCore, DataThenComplete
<1>4. SentToCore(type0, t0) = SentToCore(type0, t0)' + 1
  BY <1>3
<1>5. \A type, t : type # type0 \/ t # t0 => SentToCore(type, t)' = SentToCore(type, t)
  BY <1>2, <1>3
<1>6. QED
  BY <1>2, <1>3, <1>4, <1>5 DEF CoreLess, CoreSame

\* A wire that is left alone.
LEMMA QuietWires ==
    ASSUME FileTypes
    PROVE  /\ UNCHANGED framesToAgent => framesToAgent' \in Seq(ToAgentFrames) /\ \A t : AgentSame(t)
           /\ UNCHANGED toCore => toCore' \in Seq(ToCoreFrames) /\ \A t : CoreSame(t)
BY DEF FileTypes, AgentSame, CoreSame, SentToAgent, SentToCore, DataThenClose, DataThenComplete

\* A wire whose reader is gone.
LEMMA DroppedWires ==
    /\ framesToAgent' = <<>> =>
          /\ framesToAgent' \in Seq(ToAgentFrames)
          /\ \A type, t : SentToAgent(type, t)' = 0
          /\ \A t : DataThenClose(t)'
    /\ toCore' = <<>> =>
          /\ toCore' \in Seq(ToCoreFrames)
          /\ \A type, t : SentToCore(type, t)' = 0
          /\ \A t : DataThenComplete(t)'
<1>1. <<>> \in Seq(ToAgentFrames) /\ <<>> \in Seq(ToCoreFrames)
  OBVIOUS
<1>2. \A type, t : OnWire(<<>>, type, t) = 0
  BY EmptyWire
<1>3. \A before, type, t : NoneFollows(<<>>, before, type, t)
  BY EmptyWire
<1>4. QED
  BY <1>1, <1>2, <1>3 DEF SentToAgent, SentToCore, DataThenClose, DataThenComplete

-----------------------------------------------------------------------------
(* What the steps do to a transfer.                                         *)

KidAt(t, state, accepted, closing, failed, credit, queued) ==
    /\ kid'[t].state = state /\ kid'[t].accepted = accepted /\ kid'[t].closing = closing
    /\ kid'[t].failed = failed /\ kid'[t].credit = credit /\ kid'[t].queued = queued

StreamAt(t, step, count) == stream'[t].step = step /\ stream'[t].count = count

ServedAt(t, state, credit, chunks, staged, forward) ==
    /\ agentKid'[t].state = state /\ agentKid'[t].credit = credit /\ agentKid'[t].chunks = chunks
    /\ agentKid'[t].stage = staged /\ agentKid'[t].forward = forward

\* The other transfers keep what they have.
KidsKept(t0) == kid' \in [Transfers -> ClientKids] /\ \A t \in Transfers \ {t0} : kid'[t] = kid[t]
StreamsKept(t0) == stream' \in [Transfers -> Progress] /\ \A t \in Transfers \ {t0} : stream'[t] = stream[t]
ServedKept(t0) == agentKid' \in [Transfers -> ServedKids] /\ \A t \in Transfers \ {t0} : agentKid'[t] = agentKid[t]

\* A transfer that a step does not touch stays as it is.
Unmoved(t) ==
    /\ op'[t] = op[t] /\ kid'[t] = kid[t] /\ stream'[t] = stream[t] /\ commit'[t] = commit[t]
    /\ cancel'[t] = cancel[t] /\ agentKid'[t] = agentKid[t]
    /\ \A type : SentToAgent(type, t)' = SentToAgent(type, t) /\ SentToCore(type, t)' = SentToCore(type, t)
    /\ DataThenClose(t) => DataThenClose(t)'
    /\ DataThenComplete(t) => DataThenComplete(t)'

LEMMA OtherTransfers ==
    ASSUME NEW t \in Transfers, SoundTransfer(t), UNCHANGED endVars, Unmoved(t)
    PROVE  SoundTransfer(t)'
<1> USE DEF Unmoved, endVars
<1>1. Reached(t)'
  BY DEF SoundTransfer, Reached
<1>2. EndsKnown(t)'
  BY DEF SoundTransfer, EndsKnown
<1>3. t \in Uploads => UploadSound(t)'
  BY DEF SoundTransfer, UploadSound, Writing
<1>4. t \in Downloads => DownloadSound(t)'
  BY DEF SoundTransfer, DownloadSound, Writing, Forwarding, AgentWindow, DownloadChunks
<1>5. QED
  BY <1>1, <1>2, <1>3, <1>4 DEF SoundTransfer

\* What a step that moves one transfer leaves alone.
Only(t0) == UNCHANGED endVars /\ \A t \in Transfers \ {t0} : Unmoved(t)

\* Such a step keeps the invariant if it keeps what is said of that transfer.
LEMMA OneTransfer ==
    ASSUME FileInv, NEW t0 \in Transfers, Only(t0), SoundTransfer(t0)'
    PROVE  FileSound'
<1> SUFFICES ASSUME NEW t \in Transfers PROVE SoundTransfer(t)'
  BY DEF FileSound, SoundTransfer
<1>1. CASE t = t0
  BY <1>1
<1>2. CASE t # t0
  <2>1. SoundTransfer(t)
    BY DEF FileInv, FileSound, SoundTransfer
  <2>2. UNCHANGED endVars /\ Unmoved(t)
    BY <1>2 DEF Only
  <2>3. QED
    BY <2>1, <2>2, OtherTransfers
<1>3. QED
  BY <1>1, <1>2

\* The numbers of one transfer.
NumbersAt(t) ==
    /\ SentToAgent("open", t) \in Nat /\ SentToAgent("data", t) \in Nat /\ SentToAgent("window", t) \in Nat
    /\ SentToAgent("close", t) \in Nat /\ SentToAgent("error", t) \in Nat
    /\ SentToCore("accepted", t) \in Nat /\ SentToCore("data", t) \in Nat /\ SentToCore("window", t) \in Nat
    /\ SentToCore("error", t) \in Nat /\ SentToCore("peer_close", t) \in Nat
    /\ SentToCore("download_complete", t) \in Nat
    /\ kid[t].credit \in Nat /\ kid[t].queued \in Nat /\ stream[t].count \in Nat
    /\ agentKid[t].credit \in Nat /\ agentKid[t].chunks \in Nat
    /\ FileWindow \in Nat /\ FileChunks \in Nat /\ FileWindow > 0 /\ FileChunks > 0
    /\ t \in Uploads <=> t \notin Downloads

\* What holds of one transfer before a step.
LEMMA Given ==
    ASSUME FileInv, NEW t \in Transfers
    PROVE  NumbersAt(t) /\ SoundTransfer(t) /\ FileTypes /\ FileFlags
BY FileNumbers DEF FileInv, FileSound, SoundTransfer, NumbersAt

-----------------------------------------------------------------------------
(* The steps, one by one.                                                   *)

\* An upload is asked for, ...
LEMMA OpenUpKeeps == ASSUME FileInv, NEW t \in Transfers, t \in Uploads, Open(t) PROVE FileTypes' /\ FileSound'
<1>1. NumbersAt(t) /\ SoundTransfer(t) /\ FileTypes /\ FileFlags
  BY Given
<1>2. /\ t \in Uploads /\ op[t] = "none" /\ ~parentDone
      /\ op' = [op EXCEPT ![t] = "reserved"]
      /\ kid' = [kid EXCEPT ![t].state = "opening", ![t].credit = 0]
      /\ CoreWrites(FileFrame("open", t))
      /\ UNCHANGED <<parentDone, agentDone, toCore, stream, commit, cancel, agentKid, destination>>
  BY <1>1 DEF endVars, wires, FileFlags, FileTypes, NumbersAt, Open, ReserveOperation, OpenFileStream
<1>3. /\ op'[t] = "reserved"
      /\ t \in Uploads /\ op[t] = "none" /\ ~parentDone
      /\ UNCHANGED <<parentDone, agentDone>>
      /\ commit'[t] = commit[t] /\ cancel'[t] = cancel[t] /\ stream'[t] = stream[t] /\ agentKid'[t] = agentKid[t]
  BY <1>1, <1>2 DEF FileTypes
<1>4. FileWindow \in Nat
  BY ONLY <1>1, <1>3 DEF NumbersAt
<1>5. /\ kid \in [Transfers -> ClientKids] /\ kid[t] \in ClientKids /\ t \in Transfers
      /\ kid' = [kid EXCEPT ![t].state = "opening", ![t].credit = 0]
  BY <1>1, <1>2 DEF FileTypes
<1>6. KidAt(t, "opening", kid[t].accepted, kid[t].closing, kid[t].failed, 0, kid[t].queued)
  BY ONLY <1>5, <1>4 DEF KidAt, ClientKids
<1>7. KidsKept(t)
  BY ONLY <1>5, <1>4 DEF KidsKept, ClientKids
<1>8. PICK n \in {0, 1} : AgentWire(n, "open", t) /\ (n = 0 <=> agentDone)
  BY <1>1, <1>2, CoreWriting DEF CoreWrites, ToAgentFrames, FileFrame, FileFlags
<1>9. AgentAt(n, "open", t) /\ n \in {0, 1} /\ (n = 0 <=> agentDone)
  BY <1>8 DEF AgentWire, AgentAt
<1>10. toCore' \in Seq(ToCoreFrames) /\ \A x : CoreSame(x)
  BY <1>1, <1>2, QuietWires
<1>11. CoreSame(t)
  BY <1>10
<1>12. FileTypes'
  BY ONLY <1>1, <1>2, <1>7, <1>8, <1>10 DEF FileTypes, CallSteps, AgentWire, CoreSame, KidsKept
<1>13. Only(t)
  BY ONLY <1>1, <1>2, <1>7, <1>8, <1>10 DEF FileTypes, Only, Unmoved, endVars, AgentWire, CoreSame, KidsKept
<1>14. kid[t].queued = 0 /\ stream[t].step = "idle" /\ agentKid[t].state = "none"
  BY ONLY <1>1, <1>3, <1>6, <1>9, <1>11 DEF SoundTransfer, NumbersAt, KidAt, AgentAt, CoreSame, Reached
<1>15. Writing(t) = 0 /\ Writing(t)' = 0
  BY ONLY <1>3, <1>14 DEF Writing
<1>16. Forwarding(t)' = Forwarding(t) /\ Forwarding(t) \in {0, 1}
  BY ONLY <1>3, <1>14 DEF Forwarding
<1>17. Reached(t) /\ EndsKnown(t) /\ (t \in Uploads => UploadSound(t)) /\ (t \in Downloads => DownloadSound(t))
  BY <1>1 DEF SoundTransfer
<1>18. Reached(t)'
  BY ONLY <1>1, <1>17, <1>3, <1>6, <1>9, <1>11, <1>14, <1>15, <1>16 DEF NumbersAt, KidAt, AgentAt, CoreSame,
       Reached
<1>19. EndsKnown(t)'
  BY ONLY <1>1, <1>17, <1>3, <1>6, <1>9, <1>11, <1>14, <1>15, <1>16 DEF NumbersAt, KidAt, AgentAt, CoreSame,
       EndsKnown, Reached
<1>20. t \in Uploads => UploadSound(t)'
  BY ONLY <1>1, <1>17, <1>3, <1>6, <1>9, <1>11, <1>14, <1>15, <1>16 DEF NumbersAt, KidAt, AgentAt, CoreSame,
       UploadSound, Reached
<1>21. t \in Downloads => DownloadSound(t)'
  BY ONLY <1>1, <1>17, <1>3, <1>6, <1>9, <1>11, <1>14, <1>15, <1>16 DEF NumbersAt, KidAt, AgentAt, CoreSame,
       DownloadSound, AgentWindow, DownloadChunks, Reached
<1>22. QED
  BY <1>1, <1>12, <1>13, <1>18, <1>19, <1>20, <1>21, OneTransfer DEF SoundTransfer, NumbersAt, ToCoreFrames,
       ToAgentFrames

\* ... or a download.
LEMMA OpenDownKeeps == ASSUME FileInv, NEW t \in Transfers, t \in Downloads, Open(t) PROVE FileTypes' /\ FileSound'
<1>1. NumbersAt(t) /\ SoundTransfer(t) /\ FileTypes /\ FileFlags
  BY Given
<1>2. /\ t \in Downloads /\ op[t] = "none" /\ ~parentDone
      /\ op' = [op EXCEPT ![t] = "reserved"]
      /\ kid' = [kid EXCEPT ![t].state = "opening", ![t].credit = FileWindow]
      /\ CoreWrites(FileFrame("open", t))
      /\ UNCHANGED <<parentDone, agentDone, toCore, stream, commit, cancel, agentKid, destination>>
  BY <1>1 DEF endVars, wires, FileFlags, FileTypes, NumbersAt, Open, ReserveOperation, OpenFileStream
<1>3. /\ op'[t] = "reserved"
      /\ t \in Downloads /\ op[t] = "none" /\ ~parentDone
      /\ UNCHANGED <<parentDone, agentDone>>
      /\ commit'[t] = commit[t] /\ cancel'[t] = cancel[t] /\ stream'[t] = stream[t] /\ agentKid'[t] = agentKid[t]
  BY <1>1, <1>2 DEF FileTypes
<1>4. FileWindow \in Nat
  BY ONLY <1>1, <1>3 DEF NumbersAt
<1>5. /\ kid \in [Transfers -> ClientKids] /\ kid[t] \in ClientKids /\ t \in Transfers
      /\ kid' = [kid EXCEPT ![t].state = "opening", ![t].credit = FileWindow]
  BY <1>1, <1>2 DEF FileTypes
<1>6. KidAt(t, "opening", kid[t].accepted, kid[t].closing, kid[t].failed, FileWindow, kid[t].queued)
  BY ONLY <1>5, <1>4 DEF KidAt, ClientKids
<1>7. KidsKept(t)
  BY ONLY <1>5, <1>4 DEF KidsKept, ClientKids
<1>8. PICK n \in {0, 1} : AgentWire(n, "open", t) /\ (n = 0 <=> agentDone)
  BY <1>1, <1>2, CoreWriting DEF CoreWrites, ToAgentFrames, FileFrame, FileFlags
<1>9. AgentAt(n, "open", t) /\ n \in {0, 1} /\ (n = 0 <=> agentDone)
  BY <1>8 DEF AgentWire, AgentAt
<1>10. toCore' \in Seq(ToCoreFrames) /\ \A x : CoreSame(x)
  BY <1>1, <1>2, QuietWires
<1>11. CoreSame(t)
  BY <1>10
<1>12. FileTypes'
  BY ONLY <1>1, <1>2, <1>7, <1>8, <1>10 DEF FileTypes, CallSteps, AgentWire, CoreSame, KidsKept
<1>13. Only(t)
  BY ONLY <1>1, <1>2, <1>7, <1>8, <1>10 DEF FileTypes, Only, Unmoved, endVars, AgentWire, CoreSame, KidsKept
<1>14. kid[t].queued = 0 /\ stream[t].step = "idle" /\ agentKid[t].state = "none"
  BY ONLY <1>1, <1>3, <1>6, <1>9, <1>11 DEF SoundTransfer, NumbersAt, KidAt, AgentAt, CoreSame, Reached
<1>15. Writing(t) = 0 /\ Writing(t)' = 0
  BY ONLY <1>3, <1>14 DEF Writing
<1>16. Forwarding(t)' = Forwarding(t) /\ Forwarding(t) \in {0, 1}
  BY ONLY <1>3, <1>14 DEF Forwarding
<1>17. Reached(t) /\ EndsKnown(t) /\ (t \in Uploads => UploadSound(t)) /\ (t \in Downloads => DownloadSound(t))
  BY <1>1 DEF SoundTransfer
<1>18. Reached(t)'
  BY ONLY <1>1, <1>17, <1>3, <1>6, <1>9, <1>11, <1>14, <1>15, <1>16 DEF NumbersAt, KidAt, AgentAt, CoreSame,
       Reached
<1>19. EndsKnown(t)'
  BY ONLY <1>1, <1>17, <1>3, <1>6, <1>9, <1>11, <1>14, <1>15, <1>16 DEF NumbersAt, KidAt, AgentAt, CoreSame,
       EndsKnown, Reached
<1>20. t \in Uploads => UploadSound(t)'
  BY ONLY <1>1, <1>17, <1>3, <1>6, <1>9, <1>11, <1>14, <1>15, <1>16 DEF NumbersAt, KidAt, AgentAt, CoreSame,
       UploadSound, Reached
<1>21. t \in Downloads => DownloadSound(t)'
  BY ONLY <1>1, <1>17, <1>3, <1>6, <1>9, <1>11, <1>14, <1>15, <1>16 DEF NumbersAt, KidAt, AgentAt, CoreSame,
       DownloadSound, AgentWindow, DownloadChunks, Reached
<1>22. QED
  BY <1>1, <1>12, <1>13, <1>18, <1>19, <1>20, <1>21, OneTransfer DEF SoundTransfer, NumbersAt, ToCoreFrames,
       ToAgentFrames

\* The open returns.
LEMMA OpenReturnsKeeps == ASSUME FileInv, NEW t \in Transfers, OpenReturns(t) PROVE FileTypes' /\ FileSound'
<1>1. NumbersAt(t) /\ SoundTransfer(t) /\ FileTypes /\ FileFlags
  BY Given
<1>2. /\ op[t] = "reserved"
      /\ \/ kid[t].accepted /\ op' = [op EXCEPT ![t] = "listed"]
         \/ op' = [op EXCEPT ![t] = "gone"]
      /\ UNCHANGED <<parentDone, agentDone, framesToAgent, toCore, kid, stream, commit, cancel, agentKid, destination>>
  BY <1>1 DEF endVars, wires, FileFlags, FileTypes, OpenReturns
<1>3. /\ op'[t] = op'[t] /\ (op'[t] = "gone" \/ (op'[t] = "listed" /\ kid[t].accepted))
      /\ op[t] = "reserved"
      /\ UNCHANGED <<parentDone, agentDone>>
      /\ commit'[t] = commit[t] /\ cancel'[t] = cancel[t] /\ kid'[t] = kid[t] /\ stream'[t] = stream[t] /\ agentKid'[t] = agentKid[t]
  BY <1>1, <1>2 DEF FileTypes
<1>4. framesToAgent' \in Seq(ToAgentFrames) /\ \A x : AgentSame(x)
  BY <1>1, <1>2, QuietWires
<1>5. AgentSame(t)
  BY <1>4
<1>6. toCore' \in Seq(ToCoreFrames) /\ \A x : CoreSame(x)
  BY <1>1, <1>2, QuietWires
<1>7. CoreSame(t)
  BY <1>6
<1>8. FileTypes'
  BY ONLY <1>1, <1>2, <1>4, <1>6 DEF FileTypes, CallSteps, AgentSame, CoreSame
<1>9. Only(t)
  BY ONLY <1>1, <1>2, <1>4, <1>6 DEF FileTypes, Only, Unmoved, endVars, AgentSame, CoreSame
<1>10. Writing(t)' = Writing(t) /\ Writing(t) \in {0, 1}
  BY ONLY <1>3 DEF Writing
<1>11. Forwarding(t)' = Forwarding(t) /\ Forwarding(t) \in {0, 1}
  BY ONLY <1>3 DEF Forwarding
<1>12. Reached(t) /\ EndsKnown(t) /\ (t \in Uploads => UploadSound(t)) /\ (t \in Downloads => DownloadSound(t))
  BY <1>1 DEF SoundTransfer
<1>13. Reached(t)'
  BY ONLY <1>1, <1>12, <1>3, <1>5, <1>7, <1>10, <1>11 DEF NumbersAt, AgentSame, CoreSame, Reached
<1>14. EndsKnown(t)'
  BY ONLY <1>1, <1>12, <1>3, <1>5, <1>7, <1>10, <1>11 DEF NumbersAt, AgentSame, CoreSame, EndsKnown, Reached
<1>15. t \in Uploads => UploadSound(t)'
  BY ONLY <1>1, <1>12, <1>3, <1>5, <1>7, <1>10, <1>11 DEF NumbersAt, AgentSame, CoreSame, UploadSound
<1>16. t \in Downloads => DownloadSound(t)'
  BY ONLY <1>1, <1>12, <1>3, <1>5, <1>7, <1>10, <1>11 DEF NumbersAt, AgentSame, CoreSame, DownloadSound,
       AgentWindow, DownloadChunks
<1>17. QED
  BY <1>1, <1>8, <1>9, <1>13, <1>14, <1>15, <1>16, OneTransfer DEF SoundTransfer, NumbersAt, ToCoreFrames,
       ToAgentFrames

\* The operation is forgotten.
LEMMA WatchOperationKeeps == ASSUME FileInv, NEW t \in Transfers, WatchOperation(t) PROVE FileTypes' /\ FileSound'
<1>1. NumbersAt(t) /\ SoundTransfer(t) /\ FileTypes /\ FileFlags
  BY Given
<1>2. /\ op[t] = "listed"
      /\ op' = [op EXCEPT ![t] = "gone"]
      /\ UNCHANGED <<parentDone, agentDone, framesToAgent, toCore, kid, stream, commit, cancel, agentKid, destination>>
  BY <1>1 DEF endVars, wires, FileFlags, FileTypes, WatchOperation
<1>3. /\ op'[t] = "gone"
      /\ op[t] = "listed"
      /\ UNCHANGED <<parentDone, agentDone>>
      /\ commit'[t] = commit[t] /\ cancel'[t] = cancel[t] /\ kid'[t] = kid[t] /\ stream'[t] = stream[t] /\ agentKid'[t] = agentKid[t]
  BY <1>1, <1>2 DEF FileTypes
<1>4. framesToAgent' \in Seq(ToAgentFrames) /\ \A x : AgentSame(x)
  BY <1>1, <1>2, QuietWires
<1>5. AgentSame(t)
  BY <1>4
<1>6. toCore' \in Seq(ToCoreFrames) /\ \A x : CoreSame(x)
  BY <1>1, <1>2, QuietWires
<1>7. CoreSame(t)
  BY <1>6
<1>8. FileTypes'
  BY ONLY <1>1, <1>2, <1>4, <1>6 DEF FileTypes, CallSteps, AgentSame, CoreSame
<1>9. Only(t)
  BY ONLY <1>1, <1>2, <1>4, <1>6 DEF FileTypes, Only, Unmoved, endVars, AgentSame, CoreSame
<1>10. Writing(t)' = Writing(t) /\ Writing(t) \in {0, 1}
  BY ONLY <1>3 DEF Writing
<1>11. Forwarding(t)' = Forwarding(t) /\ Forwarding(t) \in {0, 1}
  BY ONLY <1>3 DEF Forwarding
<1>12. Reached(t) /\ EndsKnown(t) /\ (t \in Uploads => UploadSound(t)) /\ (t \in Downloads => DownloadSound(t))
  BY <1>1 DEF SoundTransfer
<1>13. Reached(t)'
  BY ONLY <1>1, <1>12, <1>3, <1>5, <1>7, <1>10, <1>11 DEF NumbersAt, AgentSame, CoreSame, Reached
<1>14. EndsKnown(t)'
  BY ONLY <1>1, <1>12, <1>3, <1>5, <1>7, <1>10, <1>11 DEF NumbersAt, AgentSame, CoreSame, EndsKnown, Reached
<1>15. t \in Uploads => UploadSound(t)'
  BY ONLY <1>1, <1>12, <1>3, <1>5, <1>7, <1>10, <1>11 DEF NumbersAt, AgentSame, CoreSame, UploadSound
<1>16. t \in Downloads => DownloadSound(t)'
  BY ONLY <1>1, <1>12, <1>3, <1>5, <1>7, <1>10, <1>11 DEF NumbersAt, AgentSame, CoreSame, DownloadSound,
       AgentWindow, DownloadChunks
<1>17. QED
  BY <1>1, <1>8, <1>9, <1>13, <1>14, <1>15, <1>16, OneTransfer DEF SoundTransfer, NumbersAt, ToCoreFrames,
       ToAgentFrames

\* A writer takes credit.
LEMMA TakeSendCreditKeeps == ASSUME FileInv, NEW t \in Transfers, TakeSendCredit(t) PROVE FileTypes' /\ FileSound'
<1>1. NumbersAt(t) /\ SoundTransfer(t) /\ FileTypes /\ FileFlags
  BY Given
<1>2. /\ t \in Uploads /\ op[t] = "listed" /\ commit[t] = "idle" /\ stream[t].step = "idle" /\ stream[t].count < FileChunks
      /\ kid[t].state = "open" /\ kid[t].credit > 0
      /\ kid' = [kid EXCEPT ![t].credit = @ - 1]
      /\ stream' = [stream EXCEPT ![t].step = "holding"]
      /\ UNCHANGED <<parentDone, agentDone, framesToAgent, toCore, op, commit, cancel, agentKid, destination>>
  BY <1>1 DEF endVars, wires, FileFlags, FileTypes, TakeSendCredit
<1>3. /\ t \in Uploads /\ op[t] = "listed" /\ commit[t] = "idle" /\ stream[t].step = "idle" /\ stream[t].count < FileChunks
      /\ kid[t].state = "open" /\ kid[t].credit > 0
      /\ UNCHANGED <<parentDone, agentDone>>
      /\ op'[t] = op[t] /\ commit'[t] = commit[t] /\ cancel'[t] = cancel[t] /\ agentKid'[t] = agentKid[t]
  BY <1>1, <1>2 DEF FileTypes
<1>4. kid[t].credit - 1 \in Nat
  BY ONLY <1>1, <1>3 DEF NumbersAt
<1>5. /\ kid \in [Transfers -> ClientKids] /\ kid[t] \in ClientKids /\ t \in Transfers
      /\ kid' = [kid EXCEPT ![t].credit = @ - 1]
  BY <1>1, <1>2 DEF FileTypes
<1>6. KidAt(t, kid[t].state, kid[t].accepted, kid[t].closing, kid[t].failed, kid[t].credit - 1, kid[t].queued)
  BY ONLY <1>5, <1>4 DEF KidAt, ClientKids
<1>7. KidsKept(t)
  BY ONLY <1>5, <1>4 DEF KidsKept, ClientKids
<1>8. /\ stream \in [Transfers -> Progress] /\ stream[t] \in Progress /\ t \in Transfers
      /\ stream' = [stream EXCEPT ![t].step = "holding"]
  BY <1>1, <1>2 DEF FileTypes
<1>9. StreamAt(t, "holding", stream[t].count)
  BY ONLY <1>8, <1>4 DEF StreamAt, Progress
<1>10. StreamsKept(t)
  BY ONLY <1>8, <1>4 DEF StreamsKept, Progress
<1>11. framesToAgent' \in Seq(ToAgentFrames) /\ \A x : AgentSame(x)
  BY <1>1, <1>2, QuietWires
<1>12. AgentSame(t)
  BY <1>11
<1>13. toCore' \in Seq(ToCoreFrames) /\ \A x : CoreSame(x)
  BY <1>1, <1>2, QuietWires
<1>14. CoreSame(t)
  BY <1>13
<1>15. FileTypes'
  BY ONLY <1>1, <1>2, <1>7, <1>10, <1>11, <1>13 DEF FileTypes, CallSteps, AgentSame, CoreSame, KidsKept,
       StreamsKept
<1>16. Only(t)
  BY ONLY <1>1, <1>2, <1>7, <1>10, <1>11, <1>13 DEF FileTypes, Only, Unmoved, endVars, AgentSame, CoreSame,
       KidsKept, StreamsKept
<1>17. Writing(t) = 0 /\ Writing(t)' = 1
  BY ONLY <1>3, <1>9 DEF Writing, StreamAt
<1>18. Forwarding(t)' = Forwarding(t) /\ Forwarding(t) \in {0, 1}
  BY ONLY <1>3 DEF Forwarding
<1>19. Reached(t) /\ EndsKnown(t) /\ (t \in Uploads => UploadSound(t)) /\ (t \in Downloads => DownloadSound(t))
  BY <1>1 DEF SoundTransfer
<1>20. Reached(t)'
  BY ONLY <1>1, <1>19, <1>3, <1>6, <1>9, <1>12, <1>14, <1>17, <1>18 DEF NumbersAt, KidAt, StreamAt, AgentSame,
       CoreSame, Reached
<1>21. EndsKnown(t)'
  BY ONLY <1>1, <1>19, <1>3, <1>6, <1>9, <1>12, <1>14, <1>17, <1>18 DEF NumbersAt, KidAt, StreamAt, AgentSame,
       CoreSame, EndsKnown, Reached
<1>22. t \in Uploads => UploadSound(t)'
  BY ONLY <1>1, <1>19, <1>3, <1>6, <1>9, <1>12, <1>14, <1>17, <1>18 DEF NumbersAt, KidAt, StreamAt, AgentSame,
       CoreSame, UploadSound
<1>23. t \in Downloads => DownloadSound(t)'
  BY ONLY <1>1, <1>19, <1>3, <1>6, <1>9, <1>12, <1>14, <1>17, <1>18 DEF NumbersAt, KidAt, StreamAt, AgentSame,
       CoreSame, DownloadSound, AgentWindow, DownloadChunks
<1>24. QED
  BY <1>1, <1>15, <1>16, <1>20, <1>21, <1>22, <1>23, OneTransfer DEF SoundTransfer, NumbersAt, ToCoreFrames,
       ToAgentFrames

\* The chunk is written to a parent that is there ...
LEMMA WriteChunkKeeps ==
    ASSUME FileInv, NEW t \in Transfers, WriteChunk(t), ~parentDone
    PROVE  FileTypes' /\ FileSound'
<1>1. NumbersAt(t) /\ SoundTransfer(t) /\ FileTypes /\ FileFlags
  BY Given
<1>2. /\ t \in Uploads /\ stream[t].step = "holding"
      /\ stream' = [stream EXCEPT ![t].step = "idle", ![t].count = @ + 1]
      /\ ~parentDone
      /\ CoreWrites(FileFrame("data", t))
      /\ UNCHANGED <<parentDone, agentDone, toCore, op, kid, commit, cancel, agentKid, destination>>
  BY <1>1 DEF endVars, wires, FileFlags, FileTypes, WriteChunk
<1>3. /\ t \in Uploads /\ stream[t].step = "holding"
      /\ ~parentDone
      /\ UNCHANGED <<parentDone, agentDone>>
      /\ op'[t] = op[t] /\ commit'[t] = commit[t] /\ cancel'[t] = cancel[t] /\ kid'[t] = kid[t] /\ agentKid'[t] = agentKid[t]
  BY <1>1, <1>2 DEF FileTypes
<1>4. stream[t].count + 1 \in Nat
  BY ONLY <1>1, <1>3 DEF NumbersAt
<1>5. /\ stream \in [Transfers -> Progress] /\ stream[t] \in Progress /\ t \in Transfers
      /\ stream' = [stream EXCEPT ![t].step = "idle", ![t].count = @ + 1]
  BY <1>1, <1>2 DEF FileTypes
<1>6. StreamAt(t, "idle", stream[t].count + 1)
  BY ONLY <1>5, <1>4 DEF StreamAt, Progress
<1>7. StreamsKept(t)
  BY ONLY <1>5, <1>4 DEF StreamsKept, Progress
<1>8. PICK n \in {0, 1} : AgentWire(n, "data", t) /\ (n = 0 <=> agentDone)
  BY <1>1, <1>2, CoreWriting DEF CoreWrites, ToAgentFrames, FileFrame, FileFlags
<1>9. AgentAt(n, "data", t) /\ n \in {0, 1} /\ (n = 0 <=> agentDone)
  BY <1>8 DEF AgentWire, AgentAt
<1>10. toCore' \in Seq(ToCoreFrames) /\ \A x : CoreSame(x)
  BY <1>1, <1>2, QuietWires
<1>11. CoreSame(t)
  BY <1>10
<1>12. FileTypes'
  BY ONLY <1>1, <1>2, <1>7, <1>8, <1>10 DEF FileTypes, CallSteps, AgentWire, CoreSame, StreamsKept
<1>13. Only(t)
  BY ONLY <1>1, <1>2, <1>7, <1>8, <1>10 DEF FileTypes, Only, Unmoved, endVars, AgentWire, CoreSame, StreamsKept
<1>14. Writing(t) = 1 /\ Writing(t)' = 0
  BY ONLY <1>3, <1>6 DEF Writing, StreamAt
<1>15. Forwarding(t)' = Forwarding(t) /\ Forwarding(t) \in {0, 1}
  BY ONLY <1>3 DEF Forwarding
<1>16. Reached(t) /\ EndsKnown(t) /\ (t \in Uploads => UploadSound(t)) /\ (t \in Downloads => DownloadSound(t))
  BY <1>1 DEF SoundTransfer
<1>17. Reached(t)'
  BY ONLY <1>1, <1>16, <1>3, <1>6, <1>9, <1>11, <1>14, <1>15 DEF NumbersAt, StreamAt, AgentAt, CoreSame, Reached
<1>18. EndsKnown(t)'
  BY ONLY <1>1, <1>16, <1>3, <1>6, <1>9, <1>11, <1>14, <1>15 DEF NumbersAt, StreamAt, AgentAt, CoreSame,
       EndsKnown, Reached
<1>19. t \in Uploads => UploadSound(t)'
  BY ONLY <1>1, <1>16, <1>3, <1>6, <1>9, <1>11, <1>14, <1>15 DEF NumbersAt, StreamAt, AgentAt, CoreSame,
       UploadSound
<1>20. t \in Downloads => DownloadSound(t)'
  BY ONLY <1>1, <1>16, <1>3, <1>6, <1>9, <1>11, <1>14, <1>15 DEF NumbersAt, StreamAt, AgentAt, CoreSame,
       DownloadSound, AgentWindow, DownloadChunks
<1>21. QED
  BY <1>1, <1>12, <1>13, <1>17, <1>18, <1>19, <1>20, OneTransfer DEF SoundTransfer, NumbersAt, ToCoreFrames,
       ToAgentFrames

\* ... or to one that is gone.
LEMMA WriteLateKeeps ==
    ASSUME FileInv, NEW t \in Transfers, WriteChunk(t), parentDone
    PROVE  FileTypes' /\ FileSound'
<1>1. NumbersAt(t) /\ SoundTransfer(t) /\ FileTypes /\ FileFlags
  BY Given
<1>2. /\ t \in Uploads /\ stream[t].step = "holding"
      /\ stream' = [stream EXCEPT ![t].step = "idle", ![t].count = @ + 1]
      /\ parentDone
      /\ UNCHANGED <<parentDone, agentDone, framesToAgent, toCore, op, kid, commit, cancel, agentKid, destination>>
  BY <1>1 DEF endVars, wires, FileFlags, FileTypes, WriteChunk
<1>3. /\ t \in Uploads /\ stream[t].step = "holding"
      /\ parentDone
      /\ UNCHANGED <<parentDone, agentDone>>
      /\ op'[t] = op[t] /\ commit'[t] = commit[t] /\ cancel'[t] = cancel[t] /\ kid'[t] = kid[t] /\ agentKid'[t] = agentKid[t]
  BY <1>1, <1>2 DEF FileTypes
<1>4. stream[t].count + 1 \in Nat
  BY ONLY <1>1, <1>3 DEF NumbersAt
<1>5. /\ stream \in [Transfers -> Progress] /\ stream[t] \in Progress /\ t \in Transfers
      /\ stream' = [stream EXCEPT ![t].step = "idle", ![t].count = @ + 1]
  BY <1>1, <1>2 DEF FileTypes
<1>6. StreamAt(t, "idle", stream[t].count + 1)
  BY ONLY <1>5, <1>4 DEF StreamAt, Progress
<1>7. StreamsKept(t)
  BY ONLY <1>5, <1>4 DEF StreamsKept, Progress
<1>8. framesToAgent' \in Seq(ToAgentFrames) /\ \A x : AgentSame(x)
  BY <1>1, <1>2, QuietWires
<1>9. AgentSame(t)
  BY <1>8
<1>10. toCore' \in Seq(ToCoreFrames) /\ \A x : CoreSame(x)
  BY <1>1, <1>2, QuietWires
<1>11. CoreSame(t)
  BY <1>10
<1>12. FileTypes'
  BY ONLY <1>1, <1>2, <1>7, <1>8, <1>10 DEF FileTypes, CallSteps, AgentSame, CoreSame, StreamsKept
<1>13. Only(t)
  BY ONLY <1>1, <1>2, <1>7, <1>8, <1>10 DEF FileTypes, Only, Unmoved, endVars, AgentSame, CoreSame, StreamsKept
<1>14. Writing(t) = 1 /\ Writing(t)' = 0
  BY ONLY <1>3, <1>6 DEF Writing, StreamAt
<1>15. Forwarding(t)' = Forwarding(t) /\ Forwarding(t) \in {0, 1}
  BY ONLY <1>3 DEF Forwarding
<1>16. Reached(t) /\ EndsKnown(t) /\ (t \in Uploads => UploadSound(t)) /\ (t \in Downloads => DownloadSound(t))
  BY <1>1 DEF SoundTransfer
<1>17. Reached(t)'
  BY ONLY <1>1, <1>16, <1>3, <1>6, <1>9, <1>11, <1>14, <1>15 DEF NumbersAt, StreamAt, AgentSame, CoreSame, Reached
<1>18. EndsKnown(t)'
  BY ONLY <1>1, <1>16, <1>3, <1>6, <1>9, <1>11, <1>14, <1>15 DEF NumbersAt, StreamAt, AgentSame, CoreSame,
       EndsKnown, Reached
<1>19. t \in Uploads => UploadSound(t)'
  BY ONLY <1>1, <1>16, <1>3, <1>6, <1>9, <1>11, <1>14, <1>15 DEF NumbersAt, StreamAt, AgentSame, CoreSame,
       UploadSound
<1>20. t \in Downloads => DownloadSound(t)'
  BY ONLY <1>1, <1>16, <1>3, <1>6, <1>9, <1>11, <1>14, <1>15 DEF NumbersAt, StreamAt, AgentSame, CoreSame,
       DownloadSound, AgentWindow, DownloadChunks
<1>21. QED
  BY <1>1, <1>12, <1>13, <1>17, <1>18, <1>19, <1>20, OneTransfer DEF SoundTransfer, NumbersAt, ToCoreFrames,
       ToAgentFrames

\* A reader waits for a chunk.
LEMMA BeginReadKeeps == ASSUME FileInv, NEW t \in Transfers, BeginRead(t) PROVE FileTypes' /\ FileSound'
<1>1. NumbersAt(t) /\ SoundTransfer(t) /\ FileTypes /\ FileFlags
  BY Given
<1>2. /\ t \in Downloads /\ op[t] = "listed" /\ stream[t].step = "idle"
      /\ stream' = [stream EXCEPT ![t].step = "reading"]
      /\ UNCHANGED <<parentDone, agentDone, framesToAgent, toCore, op, kid, commit, cancel, agentKid, destination>>
  BY <1>1 DEF endVars, wires, FileFlags, FileTypes, BeginRead
<1>3. /\ t \in Downloads /\ op[t] = "listed" /\ stream[t].step = "idle"
      /\ UNCHANGED <<parentDone, agentDone>>
      /\ op'[t] = op[t] /\ commit'[t] = commit[t] /\ cancel'[t] = cancel[t] /\ kid'[t] = kid[t] /\ agentKid'[t] = agentKid[t]
  BY <1>1, <1>2 DEF FileTypes
<1>4. /\ stream \in [Transfers -> Progress] /\ stream[t] \in Progress /\ t \in Transfers
      /\ stream' = [stream EXCEPT ![t].step = "reading"]
  BY <1>1, <1>2 DEF FileTypes
<1>5. StreamAt(t, "reading", stream[t].count)
  BY ONLY <1>4 DEF StreamAt, Progress
<1>6. StreamsKept(t)
  BY ONLY <1>4 DEF StreamsKept, Progress
<1>7. framesToAgent' \in Seq(ToAgentFrames) /\ \A x : AgentSame(x)
  BY <1>1, <1>2, QuietWires
<1>8. AgentSame(t)
  BY <1>7
<1>9. toCore' \in Seq(ToCoreFrames) /\ \A x : CoreSame(x)
  BY <1>1, <1>2, QuietWires
<1>10. CoreSame(t)
  BY <1>9
<1>11. FileTypes'
  BY ONLY <1>1, <1>2, <1>6, <1>7, <1>9 DEF FileTypes, CallSteps, AgentSame, CoreSame, StreamsKept
<1>12. Only(t)
  BY ONLY <1>1, <1>2, <1>6, <1>7, <1>9 DEF FileTypes, Only, Unmoved, endVars, AgentSame, CoreSame, StreamsKept
<1>13. Writing(t) = 0 /\ Writing(t)' = 0
  BY ONLY <1>3, <1>5 DEF Writing, StreamAt
<1>14. Forwarding(t)' = Forwarding(t) /\ Forwarding(t) \in {0, 1}
  BY ONLY <1>3 DEF Forwarding
<1>15. Reached(t) /\ EndsKnown(t) /\ (t \in Uploads => UploadSound(t)) /\ (t \in Downloads => DownloadSound(t))
  BY <1>1 DEF SoundTransfer
<1>16. Reached(t)'
  BY ONLY <1>1, <1>15, <1>3, <1>5, <1>8, <1>10, <1>13, <1>14 DEF NumbersAt, StreamAt, AgentSame, CoreSame, Reached
<1>17. EndsKnown(t)'
  BY ONLY <1>1, <1>15, <1>3, <1>5, <1>8, <1>10, <1>13, <1>14 DEF NumbersAt, StreamAt, AgentSame, CoreSame,
       EndsKnown, Reached
<1>18. t \in Uploads => UploadSound(t)'
  BY ONLY <1>1, <1>15, <1>3, <1>5, <1>8, <1>10, <1>13, <1>14 DEF NumbersAt, StreamAt, AgentSame, CoreSame,
       UploadSound
<1>19. t \in Downloads => DownloadSound(t)'
  BY ONLY <1>1, <1>15, <1>3, <1>5, <1>8, <1>10, <1>13, <1>14 DEF NumbersAt, StreamAt, AgentSame, CoreSame,
       DownloadSound, AgentWindow, DownloadChunks
<1>20. QED
  BY <1>1, <1>11, <1>12, <1>16, <1>17, <1>18, <1>19, OneTransfer DEF SoundTransfer, NumbersAt, ToCoreFrames,
       ToAgentFrames

\* A reader takes a chunk.
LEMMA TakeChunkKeeps == ASSUME FileInv, NEW t \in Transfers, TakeChunk(t) PROVE FileTypes' /\ FileSound'
<1>1. NumbersAt(t) /\ SoundTransfer(t) /\ FileTypes /\ FileFlags
  BY Given
<1>2. /\ stream[t].step = "reading" /\ kid[t].queued > 0
      /\ kid' = [kid EXCEPT ![t].queued = @ - 1]
      /\ stream' = [stream EXCEPT ![t].step = "holding", ![t].count = @ + 1]
      /\ UNCHANGED <<parentDone, agentDone, framesToAgent, toCore, op, commit, cancel, agentKid, destination>>
  BY <1>1 DEF endVars, wires, FileFlags, FileTypes, TakeChunk
<1>3. /\ stream[t].step = "reading" /\ kid[t].queued > 0
      /\ UNCHANGED <<parentDone, agentDone>>
      /\ op'[t] = op[t] /\ commit'[t] = commit[t] /\ cancel'[t] = cancel[t] /\ agentKid'[t] = agentKid[t]
  BY <1>1, <1>2 DEF FileTypes
<1>4. kid[t].queued - 1 \in Nat /\ stream[t].count + 1 \in Nat
  BY ONLY <1>1, <1>3 DEF NumbersAt
<1>5. /\ kid \in [Transfers -> ClientKids] /\ kid[t] \in ClientKids /\ t \in Transfers
      /\ kid' = [kid EXCEPT ![t].queued = @ - 1]
  BY <1>1, <1>2 DEF FileTypes
<1>6. KidAt(t, kid[t].state, kid[t].accepted, kid[t].closing, kid[t].failed, kid[t].credit, kid[t].queued - 1)
  BY ONLY <1>5, <1>4 DEF KidAt, ClientKids
<1>7. KidsKept(t)
  BY ONLY <1>5, <1>4 DEF KidsKept, ClientKids
<1>8. /\ stream \in [Transfers -> Progress] /\ stream[t] \in Progress /\ t \in Transfers
      /\ stream' = [stream EXCEPT ![t].step = "holding", ![t].count = @ + 1]
  BY <1>1, <1>2 DEF FileTypes
<1>9. StreamAt(t, "holding", stream[t].count + 1)
  BY ONLY <1>8, <1>4 DEF StreamAt, Progress
<1>10. StreamsKept(t)
  BY ONLY <1>8, <1>4 DEF StreamsKept, Progress
<1>11. framesToAgent' \in Seq(ToAgentFrames) /\ \A x : AgentSame(x)
  BY <1>1, <1>2, QuietWires
<1>12. AgentSame(t)
  BY <1>11
<1>13. toCore' \in Seq(ToCoreFrames) /\ \A x : CoreSame(x)
  BY <1>1, <1>2, QuietWires
<1>14. CoreSame(t)
  BY <1>13
<1>15. FileTypes'
  BY ONLY <1>1, <1>2, <1>7, <1>10, <1>11, <1>13 DEF FileTypes, CallSteps, AgentSame, CoreSame, KidsKept,
       StreamsKept
<1>16. Only(t)
  BY ONLY <1>1, <1>2, <1>7, <1>10, <1>11, <1>13 DEF FileTypes, Only, Unmoved, endVars, AgentSame, CoreSame,
       KidsKept, StreamsKept
<1>17. Writing(t) = 0 /\ Writing(t)' = 1
  BY ONLY <1>3, <1>9 DEF Writing, StreamAt
<1>18. Forwarding(t)' = Forwarding(t) /\ Forwarding(t) \in {0, 1}
  BY ONLY <1>3 DEF Forwarding
<1>19. Reached(t) /\ EndsKnown(t) /\ (t \in Uploads => UploadSound(t)) /\ (t \in Downloads => DownloadSound(t))
  BY <1>1 DEF SoundTransfer
<1>20. Reached(t)'
  BY ONLY <1>1, <1>19, <1>3, <1>6, <1>9, <1>12, <1>14, <1>17, <1>18 DEF NumbersAt, KidAt, StreamAt, AgentSame,
       CoreSame, Reached
<1>21. EndsKnown(t)'
  BY ONLY <1>1, <1>19, <1>3, <1>6, <1>9, <1>12, <1>14, <1>17, <1>18 DEF NumbersAt, KidAt, StreamAt, AgentSame,
       CoreSame, EndsKnown, Reached
<1>22. t \in Uploads => UploadSound(t)'
  BY ONLY <1>1, <1>19, <1>3, <1>6, <1>9, <1>12, <1>14, <1>17, <1>18 DEF NumbersAt, KidAt, StreamAt, AgentSame,
       CoreSame, UploadSound
<1>23. t \in Downloads => DownloadSound(t)'
  BY ONLY <1>1, <1>19, <1>3, <1>6, <1>9, <1>12, <1>14, <1>17, <1>18 DEF NumbersAt, KidAt, StreamAt, AgentSame,
       CoreSame, DownloadSound, AgentWindow, DownloadChunks
<1>24. QED
  BY <1>1, <1>15, <1>16, <1>20, <1>21, <1>22, <1>23, OneTransfer DEF SoundTransfer, NumbersAt, ToCoreFrames,
       ToAgentFrames

\* Its credit is given back ...
LEMMA ReturnCreditKeeps ==
    ASSUME FileInv, NEW t \in Transfers, ReturnCredit(t), kid[t].state # "done"
    PROVE  FileTypes' /\ FileSound'
<1>1. NumbersAt(t) /\ SoundTransfer(t) /\ FileTypes /\ FileFlags
  BY Given
<1>2. /\ t \in Downloads /\ stream[t].step = "holding" /\ kid[t].state # "done"
      /\ stream' = [stream EXCEPT ![t].step = "idle"]
      /\ kid' = [kid EXCEPT ![t].credit = @ + 1]
      /\ CoreWrites(FileFrame("window", t))
      /\ UNCHANGED <<parentDone, agentDone, toCore, op, commit, cancel, agentKid, destination>>
  BY <1>1 DEF endVars, wires, FileFlags, FileTypes, ReturnCredit
<1>3. /\ t \in Downloads /\ stream[t].step = "holding" /\ kid[t].state # "done"
      /\ UNCHANGED <<parentDone, agentDone>>
      /\ op'[t] = op[t] /\ commit'[t] = commit[t] /\ cancel'[t] = cancel[t] /\ agentKid'[t] = agentKid[t]
  BY <1>1, <1>2 DEF FileTypes
<1>4. kid[t].credit + 1 \in Nat
  BY ONLY <1>1, <1>3 DEF NumbersAt
<1>5. /\ kid \in [Transfers -> ClientKids] /\ kid[t] \in ClientKids /\ t \in Transfers
      /\ kid' = [kid EXCEPT ![t].credit = @ + 1]
  BY <1>1, <1>2 DEF FileTypes
<1>6. KidAt(t, kid[t].state, kid[t].accepted, kid[t].closing, kid[t].failed, kid[t].credit + 1, kid[t].queued)
  BY ONLY <1>5, <1>4 DEF KidAt, ClientKids
<1>7. KidsKept(t)
  BY ONLY <1>5, <1>4 DEF KidsKept, ClientKids
<1>8. /\ stream \in [Transfers -> Progress] /\ stream[t] \in Progress /\ t \in Transfers
      /\ stream' = [stream EXCEPT ![t].step = "idle"]
  BY <1>1, <1>2 DEF FileTypes
<1>9. StreamAt(t, "idle", stream[t].count)
  BY ONLY <1>8, <1>4 DEF StreamAt, Progress
<1>10. StreamsKept(t)
  BY ONLY <1>8, <1>4 DEF StreamsKept, Progress
<1>11. PICK n \in {0, 1} : AgentWire(n, "window", t) /\ (n = 0 <=> agentDone)
  BY <1>1, <1>2, CoreWriting DEF CoreWrites, ToAgentFrames, FileFrame, FileFlags
<1>12. AgentAt(n, "window", t) /\ n \in {0, 1} /\ (n = 0 <=> agentDone)
  BY <1>11 DEF AgentWire, AgentAt
<1>13. toCore' \in Seq(ToCoreFrames) /\ \A x : CoreSame(x)
  BY <1>1, <1>2, QuietWires
<1>14. CoreSame(t)
  BY <1>13
<1>15. FileTypes'
  BY ONLY <1>1, <1>2, <1>7, <1>10, <1>11, <1>13 DEF FileTypes, CallSteps, AgentWire, CoreSame, KidsKept,
       StreamsKept
<1>16. Only(t)
  BY ONLY <1>1, <1>2, <1>7, <1>10, <1>11, <1>13 DEF FileTypes, Only, Unmoved, endVars, AgentWire, CoreSame,
       KidsKept, StreamsKept
<1>17. Writing(t) = 1 /\ Writing(t)' = 0
  BY ONLY <1>3, <1>9 DEF Writing, StreamAt
<1>18. Forwarding(t)' = Forwarding(t) /\ Forwarding(t) \in {0, 1}
  BY ONLY <1>3 DEF Forwarding
<1>19. Reached(t) /\ EndsKnown(t) /\ (t \in Uploads => UploadSound(t)) /\ (t \in Downloads => DownloadSound(t))
  BY <1>1 DEF SoundTransfer
<1>20. Reached(t)'
  BY ONLY <1>1, <1>19, <1>3, <1>6, <1>9, <1>12, <1>14, <1>17, <1>18 DEF NumbersAt, KidAt, StreamAt, AgentAt,
       CoreSame, Reached
<1>21. EndsKnown(t)'
  BY ONLY <1>1, <1>19, <1>3, <1>6, <1>9, <1>12, <1>14, <1>17, <1>18 DEF NumbersAt, KidAt, StreamAt, AgentAt,
       CoreSame, EndsKnown, Reached
<1>22. t \in Uploads => UploadSound(t)'
  BY ONLY <1>1, <1>19, <1>3, <1>6, <1>9, <1>12, <1>14, <1>17, <1>18 DEF NumbersAt, KidAt, StreamAt, AgentAt,
       CoreSame, UploadSound
<1>23. t \in Downloads => DownloadSound(t)'
  BY ONLY <1>1, <1>19, <1>3, <1>6, <1>9, <1>12, <1>14, <1>17, <1>18 DEF NumbersAt, KidAt, StreamAt, AgentAt,
       CoreSame, DownloadSound, AgentWindow, DownloadChunks
<1>24. QED
  BY <1>1, <1>15, <1>16, <1>20, <1>21, <1>22, <1>23, OneTransfer DEF SoundTransfer, NumbersAt, ToCoreFrames,
       ToAgentFrames

\* ... unless the child is done.
LEMMA ReturnLateKeeps ==
    ASSUME FileInv, NEW t \in Transfers, ReturnCredit(t), kid[t].state = "done"
    PROVE  FileTypes' /\ FileSound'
<1>1. NumbersAt(t) /\ SoundTransfer(t) /\ FileTypes /\ FileFlags
  BY Given
<1>2. /\ t \in Downloads /\ stream[t].step = "holding" /\ kid[t].state = "done"
      /\ stream' = [stream EXCEPT ![t].step = "idle"]
      /\ UNCHANGED <<parentDone, agentDone, framesToAgent, toCore, op, kid, commit, cancel, agentKid, destination>>
  BY <1>1 DEF endVars, wires, FileFlags, FileTypes, ReturnCredit
<1>3. /\ t \in Downloads /\ stream[t].step = "holding" /\ kid[t].state = "done"
      /\ UNCHANGED <<parentDone, agentDone>>
      /\ op'[t] = op[t] /\ commit'[t] = commit[t] /\ cancel'[t] = cancel[t] /\ kid'[t] = kid[t] /\ agentKid'[t] = agentKid[t]
  BY <1>1, <1>2 DEF FileTypes
<1>4. /\ stream \in [Transfers -> Progress] /\ stream[t] \in Progress /\ t \in Transfers
      /\ stream' = [stream EXCEPT ![t].step = "idle"]
  BY <1>1, <1>2 DEF FileTypes
<1>5. StreamAt(t, "idle", stream[t].count)
  BY ONLY <1>4 DEF StreamAt, Progress
<1>6. StreamsKept(t)
  BY ONLY <1>4 DEF StreamsKept, Progress
<1>7. framesToAgent' \in Seq(ToAgentFrames) /\ \A x : AgentSame(x)
  BY <1>1, <1>2, QuietWires
<1>8. AgentSame(t)
  BY <1>7
<1>9. toCore' \in Seq(ToCoreFrames) /\ \A x : CoreSame(x)
  BY <1>1, <1>2, QuietWires
<1>10. CoreSame(t)
  BY <1>9
<1>11. FileTypes'
  BY ONLY <1>1, <1>2, <1>6, <1>7, <1>9 DEF FileTypes, CallSteps, AgentSame, CoreSame, StreamsKept
<1>12. Only(t)
  BY ONLY <1>1, <1>2, <1>6, <1>7, <1>9 DEF FileTypes, Only, Unmoved, endVars, AgentSame, CoreSame, StreamsKept
<1>13. Writing(t) = 1 /\ Writing(t)' = 0
  BY ONLY <1>3, <1>5 DEF Writing, StreamAt
<1>14. Forwarding(t)' = Forwarding(t) /\ Forwarding(t) \in {0, 1}
  BY ONLY <1>3 DEF Forwarding
<1>15. Reached(t) /\ EndsKnown(t) /\ (t \in Uploads => UploadSound(t)) /\ (t \in Downloads => DownloadSound(t))
  BY <1>1 DEF SoundTransfer
<1>16. Reached(t)'
  BY ONLY <1>1, <1>15, <1>3, <1>5, <1>8, <1>10, <1>13, <1>14 DEF NumbersAt, StreamAt, AgentSame, CoreSame, Reached
<1>17. EndsKnown(t)'
  BY ONLY <1>1, <1>15, <1>3, <1>5, <1>8, <1>10, <1>13, <1>14 DEF NumbersAt, StreamAt, AgentSame, CoreSame,
       EndsKnown, Reached
<1>18. t \in Uploads => UploadSound(t)'
  BY ONLY <1>1, <1>15, <1>3, <1>5, <1>8, <1>10, <1>13, <1>14 DEF NumbersAt, StreamAt, AgentSame, CoreSame,
       UploadSound
<1>19. t \in Downloads => DownloadSound(t)'
  BY ONLY <1>1, <1>15, <1>3, <1>5, <1>8, <1>10, <1>13, <1>14 DEF NumbersAt, StreamAt, AgentSame, CoreSame,
       DownloadSound, AgentWindow, DownloadChunks
<1>20. QED
  BY <1>1, <1>11, <1>12, <1>16, <1>17, <1>18, <1>19, OneTransfer DEF SoundTransfer, NumbersAt, ToCoreFrames,
       ToAgentFrames

\* A reader returns at the end.
LEMMA ReadEndsKeeps == ASSUME FileInv, NEW t \in Transfers, ReadEnds(t) PROVE FileTypes' /\ FileSound'
<1>1. NumbersAt(t) /\ SoundTransfer(t) /\ FileTypes /\ FileFlags
  BY Given
<1>2. /\ stream[t].step = "reading"
      /\ stream' = [stream EXCEPT ![t].step = "ended"]
      /\ op' = [op EXCEPT ![t] = "gone"]
      /\ UNCHANGED <<parentDone, agentDone, framesToAgent, toCore, kid, commit, cancel, agentKid, destination>>
  BY <1>1 DEF endVars, wires, FileFlags, FileTypes, ReadEnds
<1>3. /\ op'[t] = "gone"
      /\ stream[t].step = "reading"
      /\ UNCHANGED <<parentDone, agentDone>>
      /\ commit'[t] = commit[t] /\ cancel'[t] = cancel[t] /\ kid'[t] = kid[t] /\ agentKid'[t] = agentKid[t]
  BY <1>1, <1>2 DEF FileTypes
<1>4. /\ stream \in [Transfers -> Progress] /\ stream[t] \in Progress /\ t \in Transfers
      /\ stream' = [stream EXCEPT ![t].step = "ended"]
  BY <1>1, <1>2 DEF FileTypes
<1>5. StreamAt(t, "ended", stream[t].count)
  BY ONLY <1>4 DEF StreamAt, Progress
<1>6. StreamsKept(t)
  BY ONLY <1>4 DEF StreamsKept, Progress
<1>7. framesToAgent' \in Seq(ToAgentFrames) /\ \A x : AgentSame(x)
  BY <1>1, <1>2, QuietWires
<1>8. AgentSame(t)
  BY <1>7
<1>9. toCore' \in Seq(ToCoreFrames) /\ \A x : CoreSame(x)
  BY <1>1, <1>2, QuietWires
<1>10. CoreSame(t)
  BY <1>9
<1>11. FileTypes'
  BY ONLY <1>1, <1>2, <1>6, <1>7, <1>9 DEF FileTypes, CallSteps, AgentSame, CoreSame, StreamsKept
<1>12. Only(t)
  BY ONLY <1>1, <1>2, <1>6, <1>7, <1>9 DEF FileTypes, Only, Unmoved, endVars, AgentSame, CoreSame, StreamsKept
<1>13. Writing(t) = 0 /\ Writing(t)' = 0
  BY ONLY <1>3, <1>5 DEF Writing, StreamAt
<1>14. Forwarding(t)' = Forwarding(t) /\ Forwarding(t) \in {0, 1}
  BY ONLY <1>3 DEF Forwarding
<1>15. Reached(t) /\ EndsKnown(t) /\ (t \in Uploads => UploadSound(t)) /\ (t \in Downloads => DownloadSound(t))
  BY <1>1 DEF SoundTransfer
<1>16. Reached(t)'
  BY ONLY <1>1, <1>15, <1>3, <1>5, <1>8, <1>10, <1>13, <1>14 DEF NumbersAt, StreamAt, AgentSame, CoreSame, Reached
<1>17. EndsKnown(t)'
  BY ONLY <1>1, <1>15, <1>3, <1>5, <1>8, <1>10, <1>13, <1>14 DEF NumbersAt, StreamAt, AgentSame, CoreSame,
       EndsKnown, Reached
<1>18. t \in Uploads => UploadSound(t)'
  BY ONLY <1>1, <1>15, <1>3, <1>5, <1>8, <1>10, <1>13, <1>14 DEF NumbersAt, StreamAt, AgentSame, CoreSame,
       UploadSound
<1>19. t \in Downloads => DownloadSound(t)'
  BY ONLY <1>1, <1>15, <1>3, <1>5, <1>8, <1>10, <1>13, <1>14 DEF NumbersAt, StreamAt, AgentSame, CoreSame,
       DownloadSound, AgentWindow, DownloadChunks
<1>20. QED
  BY <1>1, <1>11, <1>12, <1>16, <1>17, <1>18, <1>19, OneTransfer DEF SoundTransfer, NumbersAt, ToCoreFrames,
       ToAgentFrames

\* CommitFileUpload finds the operation.
LEMMA BeginCommitKeeps == ASSUME FileInv, NEW t \in Transfers, BeginCommit(t) PROVE FileTypes' /\ FileSound'
<1>1. NumbersAt(t) /\ SoundTransfer(t) /\ FileTypes /\ FileFlags
  BY Given
<1>2. /\ t \in Uploads /\ stream[t].step = "idle" /\ op[t] = "listed" /\ commit[t] = "idle"
      /\ commit' = [commit EXCEPT ![t] = "looked"]
      /\ UNCHANGED <<parentDone, agentDone, framesToAgent, toCore, op, kid, stream, cancel, agentKid, destination>>
  BY <1>1 DEF endVars, wires, FileFlags, FileTypes, BeginCommit, Look
<1>3. /\ commit'[t] = "looked"
      /\ t \in Uploads /\ stream[t].step = "idle" /\ op[t] = "listed" /\ commit[t] = "idle"
      /\ UNCHANGED <<parentDone, agentDone>>
      /\ op'[t] = op[t] /\ cancel'[t] = cancel[t] /\ kid'[t] = kid[t] /\ stream'[t] = stream[t] /\ agentKid'[t] = agentKid[t]
  BY <1>1, <1>2 DEF FileTypes
<1>4. framesToAgent' \in Seq(ToAgentFrames) /\ \A x : AgentSame(x)
  BY <1>1, <1>2, QuietWires
<1>5. AgentSame(t)
  BY <1>4
<1>6. toCore' \in Seq(ToCoreFrames) /\ \A x : CoreSame(x)
  BY <1>1, <1>2, QuietWires
<1>7. CoreSame(t)
  BY <1>6
<1>8. FileTypes'
  BY ONLY <1>1, <1>2, <1>4, <1>6 DEF FileTypes, CallSteps, AgentSame, CoreSame
<1>9. Only(t)
  BY ONLY <1>1, <1>2, <1>4, <1>6 DEF FileTypes, Only, Unmoved, endVars, AgentSame, CoreSame
<1>10. Writing(t)' = Writing(t) /\ Writing(t) \in {0, 1}
  BY ONLY <1>3 DEF Writing
<1>11. Forwarding(t)' = Forwarding(t) /\ Forwarding(t) \in {0, 1}
  BY ONLY <1>3 DEF Forwarding
<1>12. Reached(t) /\ EndsKnown(t) /\ (t \in Uploads => UploadSound(t)) /\ (t \in Downloads => DownloadSound(t))
  BY <1>1 DEF SoundTransfer
<1>13. Reached(t)'
  BY ONLY <1>1, <1>12, <1>3, <1>5, <1>7, <1>10, <1>11 DEF NumbersAt, AgentSame, CoreSame, Reached
<1>14. EndsKnown(t)'
  BY ONLY <1>1, <1>12, <1>3, <1>5, <1>7, <1>10, <1>11 DEF NumbersAt, AgentSame, CoreSame, EndsKnown, Reached
<1>15. t \in Uploads => UploadSound(t)'
  BY ONLY <1>1, <1>12, <1>3, <1>5, <1>7, <1>10, <1>11 DEF NumbersAt, AgentSame, CoreSame, UploadSound
<1>16. t \in Downloads => DownloadSound(t)'
  BY ONLY <1>1, <1>12, <1>3, <1>5, <1>7, <1>10, <1>11 DEF NumbersAt, AgentSame, CoreSame, DownloadSound,
       AgentWindow, DownloadChunks
<1>17. QED
  BY <1>1, <1>8, <1>9, <1>13, <1>14, <1>15, <1>16, OneTransfer DEF SoundTransfer, NumbersAt, ToCoreFrames,
       ToAgentFrames

\* CancelFileTransfer finds the operation.
LEMMA BeginCancelKeeps == ASSUME FileInv, NEW t \in Transfers, BeginCancel(t) PROVE FileTypes' /\ FileSound'
<1>1. NumbersAt(t) /\ SoundTransfer(t) /\ FileTypes /\ FileFlags
  BY Given
<1>2. /\ op[t] = "listed" /\ cancel[t] = "idle"
      /\ cancel' = [cancel EXCEPT ![t] = "looked"]
      /\ UNCHANGED <<parentDone, agentDone, framesToAgent, toCore, op, kid, stream, commit, agentKid, destination>>
  BY <1>1 DEF endVars, wires, FileFlags, FileTypes, BeginCancel, Look
<1>3. /\ cancel'[t] = "looked"
      /\ op[t] = "listed" /\ cancel[t] = "idle"
      /\ UNCHANGED <<parentDone, agentDone>>
      /\ op'[t] = op[t] /\ commit'[t] = commit[t] /\ kid'[t] = kid[t] /\ stream'[t] = stream[t] /\ agentKid'[t] = agentKid[t]
  BY <1>1, <1>2 DEF FileTypes
<1>4. framesToAgent' \in Seq(ToAgentFrames) /\ \A x : AgentSame(x)
  BY <1>1, <1>2, QuietWires
<1>5. AgentSame(t)
  BY <1>4
<1>6. toCore' \in Seq(ToCoreFrames) /\ \A x : CoreSame(x)
  BY <1>1, <1>2, QuietWires
<1>7. CoreSame(t)
  BY <1>6
<1>8. FileTypes'
  BY ONLY <1>1, <1>2, <1>4, <1>6 DEF FileTypes, CallSteps, AgentSame, CoreSame
<1>9. Only(t)
  BY ONLY <1>1, <1>2, <1>4, <1>6 DEF FileTypes, Only, Unmoved, endVars, AgentSame, CoreSame
<1>10. Writing(t)' = Writing(t) /\ Writing(t) \in {0, 1}
  BY ONLY <1>3 DEF Writing
<1>11. Forwarding(t)' = Forwarding(t) /\ Forwarding(t) \in {0, 1}
  BY ONLY <1>3 DEF Forwarding
<1>12. Reached(t) /\ EndsKnown(t) /\ (t \in Uploads => UploadSound(t)) /\ (t \in Downloads => DownloadSound(t))
  BY <1>1 DEF SoundTransfer
<1>13. Reached(t)'
  BY ONLY <1>1, <1>12, <1>3, <1>5, <1>7, <1>10, <1>11 DEF NumbersAt, AgentSame, CoreSame, Reached
<1>14. EndsKnown(t)'
  BY ONLY <1>1, <1>12, <1>3, <1>5, <1>7, <1>10, <1>11 DEF NumbersAt, AgentSame, CoreSame, EndsKnown, Reached
<1>15. t \in Uploads => UploadSound(t)'
  BY ONLY <1>1, <1>12, <1>3, <1>5, <1>7, <1>10, <1>11 DEF NumbersAt, AgentSame, CoreSame, UploadSound
<1>16. t \in Downloads => DownloadSound(t)'
  BY ONLY <1>1, <1>12, <1>3, <1>5, <1>7, <1>10, <1>11 DEF NumbersAt, AgentSame, CoreSame, DownloadSound,
       AgentWindow, DownloadChunks
<1>17. QED
  BY <1>1, <1>8, <1>9, <1>13, <1>14, <1>15, <1>16, OneTransfer DEF SoundTransfer, NumbersAt, ToCoreFrames,
       ToAgentFrames

\* The child of a commit is done already, ...
LEMMA CommitDoneKeeps ==
    ASSUME FileInv, NEW t \in Transfers, Commit(t), kid[t].state = "done"
    PROVE  FileTypes' /\ FileSound'
<1>1. NumbersAt(t) /\ SoundTransfer(t) /\ FileTypes /\ FileFlags
  BY Given
<1>2. /\ commit[t] = "looked"
      /\ op' = [op EXCEPT ![t] = "gone"]
      /\ commit' = [commit EXCEPT ![t] = "failed"]
      /\ UNCHANGED <<parentDone, agentDone, framesToAgent, toCore, kid, stream, cancel, agentKid, destination>>
  BY <1>1 DEF endVars, wires, FileFlags, FileTypes, Commit
<1>3. /\ op'[t] = "gone"
      /\ commit'[t] = "failed"
      /\ commit[t] = "looked"
      /\ UNCHANGED <<parentDone, agentDone>>
      /\ cancel'[t] = cancel[t] /\ kid'[t] = kid[t] /\ stream'[t] = stream[t] /\ agentKid'[t] = agentKid[t]
  BY <1>1, <1>2 DEF FileTypes
<1>4. framesToAgent' \in Seq(ToAgentFrames) /\ \A x : AgentSame(x)
  BY <1>1, <1>2, QuietWires
<1>5. AgentSame(t)
  BY <1>4
<1>6. toCore' \in Seq(ToCoreFrames) /\ \A x : CoreSame(x)
  BY <1>1, <1>2, QuietWires
<1>7. CoreSame(t)
  BY <1>6
<1>8. FileTypes'
  BY ONLY <1>1, <1>2, <1>4, <1>6 DEF FileTypes, CallSteps, AgentSame, CoreSame
<1>9. Only(t)
  BY ONLY <1>1, <1>2, <1>4, <1>6 DEF FileTypes, Only, Unmoved, endVars, AgentSame, CoreSame
<1>10. Writing(t)' = Writing(t) /\ Writing(t) \in {0, 1}
  BY ONLY <1>3 DEF Writing
<1>11. Forwarding(t)' = Forwarding(t) /\ Forwarding(t) \in {0, 1}
  BY ONLY <1>3 DEF Forwarding
<1>12. Reached(t) /\ EndsKnown(t) /\ (t \in Uploads => UploadSound(t)) /\ (t \in Downloads => DownloadSound(t))
  BY <1>1 DEF SoundTransfer
<1>13. Reached(t)'
  BY ONLY <1>1, <1>12, <1>3, <1>5, <1>7, <1>10, <1>11 DEF NumbersAt, AgentSame, CoreSame, Reached
<1>14. EndsKnown(t)'
  BY ONLY <1>1, <1>12, <1>3, <1>5, <1>7, <1>10, <1>11 DEF NumbersAt, AgentSame, CoreSame, EndsKnown, Reached
<1>15. t \in Uploads => UploadSound(t)'
  BY ONLY <1>1, <1>12, <1>3, <1>5, <1>7, <1>10, <1>11 DEF NumbersAt, AgentSame, CoreSame, UploadSound
<1>16. t \in Downloads => DownloadSound(t)'
  BY ONLY <1>1, <1>12, <1>3, <1>5, <1>7, <1>10, <1>11 DEF NumbersAt, AgentSame, CoreSame, DownloadSound,
       AgentWindow, DownloadChunks
<1>17. QED
  BY <1>1, <1>8, <1>9, <1>13, <1>14, <1>15, <1>16, OneTransfer DEF SoundTransfer, NumbersAt, ToCoreFrames,
       ToAgentFrames

\* ... or it is closing, ...
LEMMA CommitClosingKeeps ==
    ASSUME FileInv, NEW t \in Transfers, Commit(t), kid[t].state # "done", kid[t].closing
    PROVE  FileTypes' /\ FileSound'
<1>1. NumbersAt(t) /\ SoundTransfer(t) /\ FileTypes /\ FileFlags
  BY Given
<1>2. /\ commit[t] = "looked" /\ kid[t].closing
      /\ op' = [op EXCEPT ![t] = "gone"]
      /\ commit' = [commit EXCEPT ![t] = "waiting"]
      /\ kid' = [kid EXCEPT ![t].closing = TRUE]
      /\ UNCHANGED <<parentDone, agentDone, framesToAgent, toCore, stream, cancel, agentKid, destination>>
  BY <1>1 DEF endVars, wires, FileFlags, FileTypes, Commit
<1>3. /\ op'[t] = "gone"
      /\ commit'[t] = "waiting"
      /\ commit[t] = "looked" /\ kid[t].closing
      /\ UNCHANGED <<parentDone, agentDone>>
      /\ cancel'[t] = cancel[t] /\ stream'[t] = stream[t] /\ agentKid'[t] = agentKid[t]
  BY <1>1, <1>2 DEF FileTypes
<1>4. /\ kid \in [Transfers -> ClientKids] /\ kid[t] \in ClientKids /\ t \in Transfers
      /\ kid' = [kid EXCEPT ![t].closing = TRUE]
  BY <1>1, <1>2 DEF FileTypes
<1>5. KidAt(t, kid[t].state, kid[t].accepted, TRUE, kid[t].failed, kid[t].credit, kid[t].queued)
  BY ONLY <1>4 DEF KidAt, ClientKids
<1>6. KidsKept(t)
  BY ONLY <1>4 DEF KidsKept, ClientKids
<1>7. framesToAgent' \in Seq(ToAgentFrames) /\ \A x : AgentSame(x)
  BY <1>1, <1>2, QuietWires
<1>8. AgentSame(t)
  BY <1>7
<1>9. toCore' \in Seq(ToCoreFrames) /\ \A x : CoreSame(x)
  BY <1>1, <1>2, QuietWires
<1>10. CoreSame(t)
  BY <1>9
<1>11. FileTypes'
  BY ONLY <1>1, <1>2, <1>6, <1>7, <1>9 DEF FileTypes, CallSteps, AgentSame, CoreSame, KidsKept
<1>12. Only(t)
  BY ONLY <1>1, <1>2, <1>6, <1>7, <1>9 DEF FileTypes, Only, Unmoved, endVars, AgentSame, CoreSame, KidsKept
<1>13. Writing(t)' = Writing(t) /\ Writing(t) \in {0, 1}
  BY ONLY <1>3 DEF Writing
<1>14. Forwarding(t)' = Forwarding(t) /\ Forwarding(t) \in {0, 1}
  BY ONLY <1>3 DEF Forwarding
<1>15. Reached(t) /\ EndsKnown(t) /\ (t \in Uploads => UploadSound(t)) /\ (t \in Downloads => DownloadSound(t))
  BY <1>1 DEF SoundTransfer
<1>16. Reached(t)'
  BY ONLY <1>1, <1>15, <1>3, <1>5, <1>8, <1>10, <1>13, <1>14 DEF NumbersAt, KidAt, AgentSame, CoreSame, Reached
<1>17. EndsKnown(t)'
  BY ONLY <1>1, <1>15, <1>3, <1>5, <1>8, <1>10, <1>13, <1>14 DEF NumbersAt, KidAt, AgentSame, CoreSame,
       EndsKnown, Reached
<1>18. t \in Uploads => UploadSound(t)'
  BY ONLY <1>1, <1>15, <1>3, <1>5, <1>8, <1>10, <1>13, <1>14 DEF NumbersAt, KidAt, AgentSame, CoreSame, UploadSound
<1>19. t \in Downloads => DownloadSound(t)'
  BY ONLY <1>1, <1>15, <1>3, <1>5, <1>8, <1>10, <1>13, <1>14 DEF NumbersAt, KidAt, AgentSame, CoreSame,
       DownloadSound, AgentWindow, DownloadChunks
<1>20. QED
  BY <1>1, <1>11, <1>12, <1>16, <1>17, <1>18, <1>19, OneTransfer DEF SoundTransfer, NumbersAt, ToCoreFrames,
       ToAgentFrames

\* ... or its close is sent.
LEMMA CommitClosesKeeps ==
    ASSUME FileInv, NEW t \in Transfers, Commit(t), kid[t].state # "done", ~kid[t].closing
    PROVE  FileTypes' /\ FileSound'
<1>1. NumbersAt(t) /\ SoundTransfer(t) /\ FileTypes /\ FileFlags
  BY Given
<1>2. /\ commit[t] = "looked" /\ kid[t].state # "done"
      /\ op' = [op EXCEPT ![t] = "gone"]
      /\ commit' = [commit EXCEPT ![t] = "waiting"]
      /\ kid' = [kid EXCEPT ![t].closing = TRUE]
      /\ CoreWrites(FileFrame("close", t))
      /\ UNCHANGED <<parentDone, agentDone, toCore, stream, cancel, agentKid, destination>>
  BY <1>1 DEF endVars, wires, FileFlags, FileTypes, Commit
<1>3. /\ op'[t] = "gone"
      /\ commit'[t] = "waiting"
      /\ commit[t] = "looked" /\ kid[t].state # "done"
      /\ UNCHANGED <<parentDone, agentDone>>
      /\ cancel'[t] = cancel[t] /\ stream'[t] = stream[t] /\ agentKid'[t] = agentKid[t]
  BY <1>1, <1>2 DEF FileTypes
<1>4. /\ kid \in [Transfers -> ClientKids] /\ kid[t] \in ClientKids /\ t \in Transfers
      /\ kid' = [kid EXCEPT ![t].closing = TRUE]
  BY <1>1, <1>2 DEF FileTypes
<1>5. KidAt(t, kid[t].state, kid[t].accepted, TRUE, kid[t].failed, kid[t].credit, kid[t].queued)
  BY ONLY <1>4 DEF KidAt, ClientKids
<1>6. KidsKept(t)
  BY ONLY <1>4 DEF KidsKept, ClientKids
<1>7. PICK n \in {0, 1} : AgentWire(n, "close", t) /\ (n = 0 <=> agentDone)
  BY <1>1, <1>2, CoreWriting DEF CoreWrites, ToAgentFrames, FileFrame, FileFlags
<1>8. AgentAt(n, "close", t) /\ n \in {0, 1} /\ (n = 0 <=> agentDone)
  BY <1>7 DEF AgentWire, AgentAt
<1>9. toCore' \in Seq(ToCoreFrames) /\ \A x : CoreSame(x)
  BY <1>1, <1>2, QuietWires
<1>10. CoreSame(t)
  BY <1>9
<1>11. FileTypes'
  BY ONLY <1>1, <1>2, <1>6, <1>7, <1>9 DEF FileTypes, CallSteps, AgentWire, CoreSame, KidsKept
<1>12. Only(t)
  BY ONLY <1>1, <1>2, <1>6, <1>7, <1>9 DEF FileTypes, Only, Unmoved, endVars, AgentWire, CoreSame, KidsKept
<1>13. Writing(t)' = Writing(t) /\ Writing(t) \in {0, 1}
  BY ONLY <1>3 DEF Writing
<1>14. Forwarding(t)' = Forwarding(t) /\ Forwarding(t) \in {0, 1}
  BY ONLY <1>3 DEF Forwarding
<1>15. Reached(t) /\ EndsKnown(t) /\ (t \in Uploads => UploadSound(t)) /\ (t \in Downloads => DownloadSound(t))
  BY <1>1 DEF SoundTransfer
<1>16. Reached(t)'
  BY ONLY <1>1, <1>15, <1>3, <1>5, <1>8, <1>10, <1>13, <1>14 DEF NumbersAt, KidAt, AgentAt, CoreSame, Reached
<1>17. EndsKnown(t)'
  BY ONLY <1>1, <1>15, <1>3, <1>5, <1>8, <1>10, <1>13, <1>14 DEF NumbersAt, KidAt, AgentAt, CoreSame, EndsKnown,
       Reached
<1>18. t \in Uploads => UploadSound(t)'
  BY ONLY <1>1, <1>15, <1>3, <1>5, <1>8, <1>10, <1>13, <1>14 DEF NumbersAt, KidAt, AgentAt, CoreSame,
       UploadSound, EndsKnown, Reached
<1>19. t \in Downloads => DownloadSound(t)'
  BY ONLY <1>1, <1>15, <1>3, <1>5, <1>8, <1>10, <1>13, <1>14 DEF NumbersAt, KidAt, AgentAt, CoreSame,
       DownloadSound, AgentWindow, DownloadChunks
<1>20. QED
  BY <1>1, <1>11, <1>12, <1>16, <1>17, <1>18, <1>19, OneTransfer DEF SoundTransfer, NumbersAt, ToCoreFrames,
       ToAgentFrames

\* The child to cancel is done already, ...
LEMMA CancelDoneKeeps ==
    ASSUME FileInv, NEW t \in Transfers, CancelFile(t), kid[t].state = "done"
    PROVE  FileTypes' /\ FileSound'
<1>1. NumbersAt(t) /\ SoundTransfer(t) /\ FileTypes /\ FileFlags
  BY Given
<1>2. /\ cancel[t] = "looked"
      /\ op' = [op EXCEPT ![t] = "gone"]
      /\ cancel' = [cancel EXCEPT ![t] = IF kid[t].failed THEN "failed" ELSE "ok"]
      /\ UNCHANGED <<parentDone, agentDone, framesToAgent, toCore, kid, stream, commit, agentKid, destination>>
  BY <1>1 DEF endVars, wires, FileFlags, FileTypes, CancelFile
<1>3. /\ op'[t] = "gone"
      /\ cancel'[t] \in {"failed", "ok"}
      /\ cancel[t] = "looked"
      /\ UNCHANGED <<parentDone, agentDone>>
      /\ commit'[t] = commit[t] /\ kid'[t] = kid[t] /\ stream'[t] = stream[t] /\ agentKid'[t] = agentKid[t]
  BY <1>1, <1>2 DEF FileTypes
<1>4. framesToAgent' \in Seq(ToAgentFrames) /\ \A x : AgentSame(x)
  BY <1>1, <1>2, QuietWires
<1>5. AgentSame(t)
  BY <1>4
<1>6. toCore' \in Seq(ToCoreFrames) /\ \A x : CoreSame(x)
  BY <1>1, <1>2, QuietWires
<1>7. CoreSame(t)
  BY <1>6
<1>8. FileTypes'
  BY ONLY <1>1, <1>2, <1>4, <1>6 DEF FileTypes, CallSteps, AgentSame, CoreSame
<1>9. Only(t)
  BY ONLY <1>1, <1>2, <1>4, <1>6 DEF FileTypes, Only, Unmoved, endVars, AgentSame, CoreSame
<1>10. Writing(t)' = Writing(t) /\ Writing(t) \in {0, 1}
  BY ONLY <1>3 DEF Writing
<1>11. Forwarding(t)' = Forwarding(t) /\ Forwarding(t) \in {0, 1}
  BY ONLY <1>3 DEF Forwarding
<1>12. Reached(t) /\ EndsKnown(t) /\ (t \in Uploads => UploadSound(t)) /\ (t \in Downloads => DownloadSound(t))
  BY <1>1 DEF SoundTransfer
<1>13. Reached(t)'
  BY ONLY <1>1, <1>12, <1>3, <1>5, <1>7, <1>10, <1>11 DEF NumbersAt, AgentSame, CoreSame, Reached
<1>14. EndsKnown(t)'
  BY ONLY <1>1, <1>12, <1>3, <1>5, <1>7, <1>10, <1>11 DEF NumbersAt, AgentSame, CoreSame, EndsKnown, Reached
<1>15. t \in Uploads => UploadSound(t)'
  BY ONLY <1>1, <1>12, <1>3, <1>5, <1>7, <1>10, <1>11 DEF NumbersAt, AgentSame, CoreSame, UploadSound
<1>16. t \in Downloads => DownloadSound(t)'
  BY ONLY <1>1, <1>12, <1>3, <1>5, <1>7, <1>10, <1>11 DEF NumbersAt, AgentSame, CoreSame, DownloadSound,
       AgentWindow, DownloadChunks
<1>17. QED
  BY <1>1, <1>8, <1>9, <1>13, <1>14, <1>15, <1>16, OneTransfer DEF SoundTransfer, NumbersAt, ToCoreFrames,
       ToAgentFrames

\* ... or the error is sent.
LEMMA CancelSendsKeeps ==
    ASSUME FileInv, NEW t \in Transfers, CancelFile(t), kid[t].state # "done"
    PROVE  FileTypes' /\ FileSound'
<1>1. NumbersAt(t) /\ SoundTransfer(t) /\ FileTypes /\ FileFlags
  BY Given
<1>2. /\ cancel[t] = "looked" /\ kid[t].state # "done"
      /\ op' = [op EXCEPT ![t] = "gone"]
      /\ cancel' = [cancel EXCEPT ![t] = "waiting"]
      /\ kid' = [kid EXCEPT ![t].closing = TRUE]
      /\ CoreWrites(FileFrame("error", t))
      /\ UNCHANGED <<parentDone, agentDone, toCore, stream, commit, agentKid, destination>>
  BY <1>1 DEF endVars, wires, FileFlags, FileTypes, CancelFile
<1>3. /\ op'[t] = "gone"
      /\ cancel'[t] = "waiting"
      /\ cancel[t] = "looked" /\ kid[t].state # "done"
      /\ UNCHANGED <<parentDone, agentDone>>
      /\ commit'[t] = commit[t] /\ stream'[t] = stream[t] /\ agentKid'[t] = agentKid[t]
  BY <1>1, <1>2 DEF FileTypes
<1>4. /\ kid \in [Transfers -> ClientKids] /\ kid[t] \in ClientKids /\ t \in Transfers
      /\ kid' = [kid EXCEPT ![t].closing = TRUE]
  BY <1>1, <1>2 DEF FileTypes
<1>5. KidAt(t, kid[t].state, kid[t].accepted, TRUE, kid[t].failed, kid[t].credit, kid[t].queued)
  BY ONLY <1>4 DEF KidAt, ClientKids
<1>6. KidsKept(t)
  BY ONLY <1>4 DEF KidsKept, ClientKids
<1>7. PICK n \in {0, 1} : AgentWire(n, "error", t) /\ (n = 0 <=> agentDone)
  BY <1>1, <1>2, CoreWriting DEF CoreWrites, ToAgentFrames, FileFrame, FileFlags
<1>8. AgentAt(n, "error", t) /\ n \in {0, 1} /\ (n = 0 <=> agentDone)
  BY <1>7 DEF AgentWire, AgentAt
<1>9. toCore' \in Seq(ToCoreFrames) /\ \A x : CoreSame(x)
  BY <1>1, <1>2, QuietWires
<1>10. CoreSame(t)
  BY <1>9
<1>11. FileTypes'
  BY ONLY <1>1, <1>2, <1>6, <1>7, <1>9 DEF FileTypes, CallSteps, AgentWire, CoreSame, KidsKept
<1>12. Only(t)
  BY ONLY <1>1, <1>2, <1>6, <1>7, <1>9 DEF FileTypes, Only, Unmoved, endVars, AgentWire, CoreSame, KidsKept
<1>13. Writing(t)' = Writing(t) /\ Writing(t) \in {0, 1}
  BY ONLY <1>3 DEF Writing
<1>14. Forwarding(t)' = Forwarding(t) /\ Forwarding(t) \in {0, 1}
  BY ONLY <1>3 DEF Forwarding
<1>15. Reached(t) /\ EndsKnown(t) /\ (t \in Uploads => UploadSound(t)) /\ (t \in Downloads => DownloadSound(t))
  BY <1>1 DEF SoundTransfer
<1>16. Reached(t)'
  BY ONLY <1>1, <1>15, <1>3, <1>5, <1>8, <1>10, <1>13, <1>14 DEF NumbersAt, KidAt, AgentAt, CoreSame, Reached
<1>17. EndsKnown(t)'
  BY ONLY <1>1, <1>15, <1>3, <1>5, <1>8, <1>10, <1>13, <1>14 DEF NumbersAt, KidAt, AgentAt, CoreSame, EndsKnown,
       Reached
<1>18. t \in Uploads => UploadSound(t)'
  BY ONLY <1>1, <1>15, <1>3, <1>5, <1>8, <1>10, <1>13, <1>14 DEF NumbersAt, KidAt, AgentAt, CoreSame, UploadSound
<1>19. t \in Downloads => DownloadSound(t)'
  BY ONLY <1>1, <1>15, <1>3, <1>5, <1>8, <1>10, <1>13, <1>14 DEF NumbersAt, KidAt, AgentAt, CoreSame,
       DownloadSound, AgentWindow, DownloadChunks
<1>20. QED
  BY <1>1, <1>11, <1>12, <1>16, <1>17, <1>18, <1>19, OneTransfer DEF SoundTransfer, NumbersAt, ToCoreFrames,
       ToAgentFrames

\* A commit returns.
LEMMA CommitReturnsKeeps == ASSUME FileInv, NEW t \in Transfers, CommitReturns(t) PROVE FileTypes' /\ FileSound'
<1>1. NumbersAt(t) /\ SoundTransfer(t) /\ FileTypes /\ FileFlags
  BY Given
<1>2. /\ commit[t] = "waiting"
      /\ commit' = [commit EXCEPT ![t] = "failed"] \/ commit' = [commit EXCEPT ![t] = "ok"]
      /\ UNCHANGED <<parentDone, agentDone, framesToAgent, toCore, op, kid, stream, cancel, agentKid, destination>>
  BY <1>1 DEF endVars, wires, FileFlags, FileTypes, CommitReturns, Outcomes
<1>3. /\ commit'[t] = commit'[t] /\ commit'[t] \in {"ok", "failed"}
      /\ commit[t] = "waiting"
      /\ UNCHANGED <<parentDone, agentDone>>
      /\ op'[t] = op[t] /\ cancel'[t] = cancel[t] /\ kid'[t] = kid[t] /\ stream'[t] = stream[t] /\ agentKid'[t] = agentKid[t]
  BY <1>1, <1>2 DEF FileTypes
<1>4. framesToAgent' \in Seq(ToAgentFrames) /\ \A x : AgentSame(x)
  BY <1>1, <1>2, QuietWires
<1>5. AgentSame(t)
  BY <1>4
<1>6. toCore' \in Seq(ToCoreFrames) /\ \A x : CoreSame(x)
  BY <1>1, <1>2, QuietWires
<1>7. CoreSame(t)
  BY <1>6
<1>8. FileTypes'
  BY ONLY <1>1, <1>2, <1>4, <1>6 DEF FileTypes, CallSteps, AgentSame, CoreSame
<1>9. Only(t)
  BY ONLY <1>1, <1>2, <1>4, <1>6 DEF FileTypes, Only, Unmoved, endVars, AgentSame, CoreSame
<1>10. Writing(t)' = Writing(t) /\ Writing(t) \in {0, 1}
  BY ONLY <1>3 DEF Writing
<1>11. Forwarding(t)' = Forwarding(t) /\ Forwarding(t) \in {0, 1}
  BY ONLY <1>3 DEF Forwarding
<1>12. Reached(t) /\ EndsKnown(t) /\ (t \in Uploads => UploadSound(t)) /\ (t \in Downloads => DownloadSound(t))
  BY <1>1 DEF SoundTransfer
<1>13. Reached(t)'
  BY ONLY <1>1, <1>12, <1>3, <1>5, <1>7, <1>10, <1>11 DEF NumbersAt, AgentSame, CoreSame, Reached
<1>14. EndsKnown(t)'
  BY ONLY <1>1, <1>12, <1>3, <1>5, <1>7, <1>10, <1>11 DEF NumbersAt, AgentSame, CoreSame, EndsKnown, Reached
<1>15. t \in Uploads => UploadSound(t)'
  BY ONLY <1>1, <1>12, <1>3, <1>5, <1>7, <1>10, <1>11 DEF NumbersAt, AgentSame, CoreSame, UploadSound
<1>16. t \in Downloads => DownloadSound(t)'
  BY ONLY <1>1, <1>12, <1>3, <1>5, <1>7, <1>10, <1>11 DEF NumbersAt, AgentSame, CoreSame, DownloadSound,
       AgentWindow, DownloadChunks
<1>17. QED
  BY <1>1, <1>8, <1>9, <1>13, <1>14, <1>15, <1>16, OneTransfer DEF SoundTransfer, NumbersAt, ToCoreFrames,
       ToAgentFrames

\* A cancellation returns.
LEMMA CancelReturnsKeeps == ASSUME FileInv, NEW t \in Transfers, CancelReturns(t) PROVE FileTypes' /\ FileSound'
<1>1. NumbersAt(t) /\ SoundTransfer(t) /\ FileTypes /\ FileFlags
  BY Given
<1>2. /\ cancel[t] = "waiting"
      /\ cancel' = [cancel EXCEPT ![t] = "failed"] \/ cancel' = [cancel EXCEPT ![t] = "ok"]
      /\ UNCHANGED <<parentDone, agentDone, framesToAgent, toCore, op, kid, stream, commit, agentKid, destination>>
  BY <1>1 DEF endVars, wires, FileFlags, FileTypes, CancelReturns, Outcomes
<1>3. /\ cancel'[t] = cancel'[t] /\ cancel'[t] \in {"ok", "failed"}
      /\ cancel[t] = "waiting"
      /\ UNCHANGED <<parentDone, agentDone>>
      /\ op'[t] = op[t] /\ commit'[t] = commit[t] /\ kid'[t] = kid[t] /\ stream'[t] = stream[t] /\ agentKid'[t] = agentKid[t]
  BY <1>1, <1>2 DEF FileTypes
<1>4. framesToAgent' \in Seq(ToAgentFrames) /\ \A x : AgentSame(x)
  BY <1>1, <1>2, QuietWires
<1>5. AgentSame(t)
  BY <1>4
<1>6. toCore' \in Seq(ToCoreFrames) /\ \A x : CoreSame(x)
  BY <1>1, <1>2, QuietWires
<1>7. CoreSame(t)
  BY <1>6
<1>8. FileTypes'
  BY ONLY <1>1, <1>2, <1>4, <1>6 DEF FileTypes, CallSteps, AgentSame, CoreSame
<1>9. Only(t)
  BY ONLY <1>1, <1>2, <1>4, <1>6 DEF FileTypes, Only, Unmoved, endVars, AgentSame, CoreSame
<1>10. Writing(t)' = Writing(t) /\ Writing(t) \in {0, 1}
  BY ONLY <1>3 DEF Writing
<1>11. Forwarding(t)' = Forwarding(t) /\ Forwarding(t) \in {0, 1}
  BY ONLY <1>3 DEF Forwarding
<1>12. Reached(t) /\ EndsKnown(t) /\ (t \in Uploads => UploadSound(t)) /\ (t \in Downloads => DownloadSound(t))
  BY <1>1 DEF SoundTransfer
<1>13. Reached(t)'
  BY ONLY <1>1, <1>12, <1>3, <1>5, <1>7, <1>10, <1>11 DEF NumbersAt, AgentSame, CoreSame, Reached
<1>14. EndsKnown(t)'
  BY ONLY <1>1, <1>12, <1>3, <1>5, <1>7, <1>10, <1>11 DEF NumbersAt, AgentSame, CoreSame, EndsKnown, Reached
<1>15. t \in Uploads => UploadSound(t)'
  BY ONLY <1>1, <1>12, <1>3, <1>5, <1>7, <1>10, <1>11 DEF NumbersAt, AgentSame, CoreSame, UploadSound
<1>16. t \in Downloads => DownloadSound(t)'
  BY ONLY <1>1, <1>12, <1>3, <1>5, <1>7, <1>10, <1>11 DEF NumbersAt, AgentSame, CoreSame, DownloadSound,
       AgentWindow, DownloadChunks
<1>17. QED
  BY <1>1, <1>8, <1>9, <1>13, <1>14, <1>15, <1>16, OneTransfer DEF SoundTransfer, NumbersAt, ToCoreFrames,
       ToAgentFrames

\* The monitor takes in a frame of transfer t ...
CoreTakes(type, t) ==
    /\ ~parentDone /\ toCore # <<>> /\ Head(toCore) = FileFrame(type, t)
    /\ Takes(FileFrame(type, t))
    /\ kid' = [kid EXCEPT ![t] = Handled(FileFrame(type, t))]
    /\ toCore' = Tail(toCore)
    /\ IF Acknowledges(FileFrame(type, t)) THEN CoreWrites(FileFrame("close", t)) ELSE UNCHANGED framesToAgent
    /\ UNCHANGED <<parentDone, agentDone, op, stream, commit, cancel, agentKid, destination>>

\* ... and the dispatcher one it can take.
AgentTakes(type, t) ==
    /\ ~agentDone /\ framesToAgent # <<>> /\ Head(framesToAgent) = FileFrame(type, t)
    /\ Valid(FileFrame(type, t))
    /\ framesToAgent' = Tail(framesToAgent)
    /\ UNCHANGED <<parentDone, agentDone, op, kid, stream, commit, cancel>>

\* An upload is accepted, ...
LEMMA AcceptedUpKeeps ==
    ASSUME FileInv, NEW t \in Transfers, CoreTakes("accepted", t), t \in Uploads
    PROVE  FileTypes' /\ FileSound'
<1>1. NumbersAt(t) /\ SoundTransfer(t) /\ FileTypes /\ FileFlags
  BY Given
<1>2. /\ ~parentDone
      /\ toCore # <<>>
      /\ Head(toCore) = FileFrame("accepted", t)
      /\ toCore' = Tail(toCore)
      /\ t \in Uploads
      /\ kid[t].state = "opening"
      /\ kid' = [kid EXCEPT ![t] = [kid[t] EXCEPT !.state = "open", !.accepted = TRUE, !.credit = FileWindow]]
      /\ UNCHANGED <<parentDone, agentDone, framesToAgent, op, stream, commit, cancel, agentKid, destination>>
  BY <1>1 DEF endVars, wires, FileFlags, FileTypes, NumbersAt, CoreTakes, Takes, Handled, Acknowledges,
       FileFrame, FailedKid
<1>3. /\ ~parentDone
      /\ t \in Uploads
      /\ kid[t].state = "opening"
      /\ UNCHANGED <<parentDone, agentDone>>
      /\ op'[t] = op[t] /\ commit'[t] = commit[t] /\ cancel'[t] = cancel[t] /\ stream'[t] = stream[t] /\ agentKid'[t] = agentKid[t]
  BY <1>1, <1>2 DEF FileTypes
<1>4. FileWindow \in Nat /\ kid[t].credit \in Nat
  BY ONLY <1>1, <1>3 DEF NumbersAt
<1>5. /\ kid \in [Transfers -> ClientKids] /\ kid[t] \in ClientKids /\ t \in Transfers
      /\ kid' = [kid EXCEPT ![t] = [kid[t] EXCEPT !.state = "open", !.accepted = TRUE, !.credit = FileWindow]]
  BY <1>1, <1>2 DEF FileTypes
<1>6. KidAt(t, "open", TRUE, kid[t].closing, kid[t].failed, FileWindow, kid[t].queued)
  BY ONLY <1>5, <1>4 DEF KidAt, ClientKids
<1>7. KidsKept(t)
  BY ONLY <1>5, <1>4 DEF KidsKept, ClientKids
<1>8. framesToAgent' \in Seq(ToAgentFrames) /\ \A x : AgentSame(x)
  BY <1>1, <1>2, QuietWires
<1>9. AgentSame(t)
  BY <1>8
<1>10. toCore' \in Seq(ToCoreFrames) /\ CoreLess("accepted", t) /\ \A x : x # t => CoreSame(x)
  BY <1>1, <1>2, CoreReading
<1>11. CoreLess("accepted", t)
  BY <1>10
<1>12. SentToCore("accepted", t) > 0
  BY ONLY <1>11 DEF CoreLess
<1>13. FileTypes'
  BY ONLY <1>1, <1>2, <1>7, <1>8, <1>10 DEF FileTypes, CallSteps, AgentSame, CoreSame, KidsKept
<1>14. Only(t)
  BY ONLY <1>1, <1>2, <1>7, <1>8, <1>10 DEF FileTypes, Only, Unmoved, endVars, AgentSame, CoreSame, KidsKept
<1>15. /\ stream[t].step = "idle" /\ kid[t].queued = 0 /\ SentToAgent("data", t) = 0 /\ SentToCore("window", t) = 0
      /\ ~kid[t].accepted /\ agentKid[t].state # "none"
  BY ONLY <1>1, <1>3, <1>6, <1>9, <1>11, <1>12 DEF SoundTransfer, NumbersAt, KidAt, AgentSame, CoreLess, Reached
<1>16. Writing(t) = 0 /\ Writing(t)' = 0
  BY ONLY <1>3, <1>15 DEF Writing
<1>17. Forwarding(t)' = Forwarding(t) /\ Forwarding(t) \in {0, 1}
  BY ONLY <1>3, <1>15 DEF Forwarding
<1>18. Reached(t) /\ EndsKnown(t) /\ (t \in Uploads => UploadSound(t)) /\ (t \in Downloads => DownloadSound(t))
  BY <1>1 DEF SoundTransfer
<1>19. Reached(t)'
  BY ONLY <1>1, <1>18, <1>3, <1>6, <1>9, <1>11, <1>12, <1>15, <1>16, <1>17 DEF NumbersAt, KidAt, AgentSame,
       CoreLess, Reached
<1>20. EndsKnown(t)'
  BY ONLY <1>1, <1>18, <1>3, <1>6, <1>9, <1>11, <1>12, <1>15, <1>16, <1>17 DEF NumbersAt, KidAt, AgentSame,
       CoreLess, EndsKnown, Reached
<1>21. t \in Uploads => UploadSound(t)'
  BY ONLY <1>1, <1>18, <1>3, <1>6, <1>9, <1>11, <1>12, <1>15, <1>16, <1>17 DEF NumbersAt, KidAt, AgentSame,
       CoreLess, UploadSound
<1>22. t \in Downloads => DownloadSound(t)'
  BY ONLY <1>1, <1>18, <1>3, <1>6, <1>9, <1>11, <1>12, <1>15, <1>16, <1>17 DEF NumbersAt, KidAt, AgentSame,
       CoreLess, DownloadSound, AgentWindow, DownloadChunks
<1>23. QED
  BY <1>1, <1>13, <1>14, <1>19, <1>20, <1>21, <1>22, OneTransfer DEF SoundTransfer, NumbersAt, ToCoreFrames,
       ToAgentFrames

\* ... or a download.
LEMMA AcceptedDownKeeps ==
    ASSUME FileInv, NEW t \in Transfers, CoreTakes("accepted", t), t \in Downloads
    PROVE  FileTypes' /\ FileSound'
<1>1. NumbersAt(t) /\ SoundTransfer(t) /\ FileTypes /\ FileFlags
  BY Given
<1>2. /\ ~parentDone
      /\ toCore # <<>>
      /\ Head(toCore) = FileFrame("accepted", t)
      /\ toCore' = Tail(toCore)
      /\ t \in Downloads
      /\ kid[t].state = "opening"
      /\ kid' = [kid EXCEPT ![t] = [kid[t] EXCEPT !.state = "open", !.accepted = TRUE, !.credit = kid[t].credit]]
      /\ UNCHANGED <<parentDone, agentDone, framesToAgent, op, stream, commit, cancel, agentKid, destination>>
  BY <1>1 DEF endVars, wires, FileFlags, FileTypes, NumbersAt, CoreTakes, Takes, Handled, Acknowledges,
       FileFrame, FailedKid
<1>3. /\ ~parentDone
      /\ t \in Downloads
      /\ kid[t].state = "opening"
      /\ UNCHANGED <<parentDone, agentDone>>
      /\ op'[t] = op[t] /\ commit'[t] = commit[t] /\ cancel'[t] = cancel[t] /\ stream'[t] = stream[t] /\ agentKid'[t] = agentKid[t]
  BY <1>1, <1>2 DEF FileTypes
<1>4. FileWindow \in Nat /\ kid[t].credit \in Nat
  BY ONLY <1>1, <1>3 DEF NumbersAt
<1>5. /\ kid \in [Transfers -> ClientKids] /\ kid[t] \in ClientKids /\ t \in Transfers
      /\ kid' = [kid EXCEPT ![t] = [kid[t] EXCEPT !.state = "open", !.accepted = TRUE, !.credit = kid[t].credit]]
  BY <1>1, <1>2 DEF FileTypes
<1>6. KidAt(t, "open", TRUE, kid[t].closing, kid[t].failed, kid[t].credit, kid[t].queued)
  BY ONLY <1>5, <1>4 DEF KidAt, ClientKids
<1>7. KidsKept(t)
  BY ONLY <1>5, <1>4 DEF KidsKept, ClientKids
<1>8. framesToAgent' \in Seq(ToAgentFrames) /\ \A x : AgentSame(x)
  BY <1>1, <1>2, QuietWires
<1>9. AgentSame(t)
  BY <1>8
<1>10. toCore' \in Seq(ToCoreFrames) /\ CoreLess("accepted", t) /\ \A x : x # t => CoreSame(x)
  BY <1>1, <1>2, CoreReading
<1>11. CoreLess("accepted", t)
  BY <1>10
<1>12. SentToCore("accepted", t) > 0
  BY ONLY <1>11 DEF CoreLess
<1>13. FileTypes'
  BY ONLY <1>1, <1>2, <1>7, <1>8, <1>10 DEF FileTypes, CallSteps, AgentSame, CoreSame, KidsKept
<1>14. Only(t)
  BY ONLY <1>1, <1>2, <1>7, <1>8, <1>10 DEF FileTypes, Only, Unmoved, endVars, AgentSame, CoreSame, KidsKept
<1>15. /\ stream[t].step = "idle" /\ kid[t].queued = 0 /\ SentToAgent("data", t) = 0 /\ SentToCore("window", t) = 0
      /\ ~kid[t].accepted /\ agentKid[t].state # "none"
  BY ONLY <1>1, <1>3, <1>6, <1>9, <1>11, <1>12 DEF SoundTransfer, NumbersAt, KidAt, AgentSame, CoreLess, Reached
<1>16. Writing(t) = 0 /\ Writing(t)' = 0
  BY ONLY <1>3, <1>15 DEF Writing
<1>17. Forwarding(t)' = Forwarding(t) /\ Forwarding(t) \in {0, 1}
  BY ONLY <1>3, <1>15 DEF Forwarding
<1>18. Reached(t) /\ EndsKnown(t) /\ (t \in Uploads => UploadSound(t)) /\ (t \in Downloads => DownloadSound(t))
  BY <1>1 DEF SoundTransfer
<1>19. Reached(t)'
  BY ONLY <1>1, <1>18, <1>3, <1>6, <1>9, <1>11, <1>12, <1>15, <1>16, <1>17 DEF NumbersAt, KidAt, AgentSame,
       CoreLess, Reached
<1>20. EndsKnown(t)'
  BY ONLY <1>1, <1>18, <1>3, <1>6, <1>9, <1>11, <1>12, <1>15, <1>16, <1>17 DEF NumbersAt, KidAt, AgentSame,
       CoreLess, EndsKnown, Reached
<1>21. t \in Uploads => UploadSound(t)'
  BY ONLY <1>1, <1>18, <1>3, <1>6, <1>9, <1>11, <1>12, <1>15, <1>16, <1>17 DEF NumbersAt, KidAt, AgentSame,
       CoreLess, UploadSound
<1>22. t \in Downloads => DownloadSound(t)'
  BY ONLY <1>1, <1>18, <1>3, <1>6, <1>9, <1>11, <1>12, <1>15, <1>16, <1>17 DEF NumbersAt, KidAt, AgentSame,
       CoreLess, DownloadSound, AgentWindow, DownloadChunks
<1>23. QED
  BY <1>1, <1>13, <1>14, <1>19, <1>20, <1>21, <1>22, OneTransfer DEF SoundTransfer, NumbersAt, ToCoreFrames,
       ToAgentFrames

\* A chunk reaches the client.
LEMMA DataTakenKeeps == ASSUME FileInv, NEW t \in Transfers, CoreTakes("data", t) PROVE FileTypes' /\ FileSound'
<1>1. NumbersAt(t) /\ SoundTransfer(t) /\ FileTypes /\ FileFlags
  BY Given
<1>2. /\ ~parentDone
      /\ toCore # <<>>
      /\ Head(toCore) = FileFrame("data", t)
      /\ toCore' = Tail(toCore)
      /\ t \in Downloads /\ kid[t].state = "open" /\ kid[t].credit > 0
      /\ kid' = [kid EXCEPT ![t] = [kid[t] EXCEPT !.credit = @ - 1, !.queued = @ + 1]]
      /\ UNCHANGED <<parentDone, agentDone, framesToAgent, op, stream, commit, cancel, agentKid, destination>>
  BY <1>1 DEF endVars, wires, FileFlags, FileTypes, NumbersAt, CoreTakes, Takes, Handled, Acknowledges,
       FileFrame, FailedKid
<1>3. /\ ~parentDone
      /\ t \in Downloads /\ kid[t].state = "open" /\ kid[t].credit > 0
      /\ UNCHANGED <<parentDone, agentDone>>
      /\ op'[t] = op[t] /\ commit'[t] = commit[t] /\ cancel'[t] = cancel[t] /\ stream'[t] = stream[t] /\ agentKid'[t] = agentKid[t]
  BY <1>1, <1>2 DEF FileTypes
<1>4. kid[t].credit - 1 \in Nat /\ kid[t].queued + 1 \in Nat
  BY ONLY <1>1, <1>3 DEF NumbersAt
<1>5. /\ kid \in [Transfers -> ClientKids] /\ kid[t] \in ClientKids /\ t \in Transfers
      /\ kid' = [kid EXCEPT ![t] = [kid[t] EXCEPT !.credit = @ - 1, !.queued = @ + 1]]
  BY <1>1, <1>2 DEF FileTypes
<1>6. KidAt(t, kid[t].state, kid[t].accepted, kid[t].closing, kid[t].failed, kid[t].credit - 1, kid[t].queued + 1)
  BY ONLY <1>5, <1>4 DEF KidAt, ClientKids
<1>7. KidsKept(t)
  BY ONLY <1>5, <1>4 DEF KidsKept, ClientKids
<1>8. framesToAgent' \in Seq(ToAgentFrames) /\ \A x : AgentSame(x)
  BY <1>1, <1>2, QuietWires
<1>9. AgentSame(t)
  BY <1>8
<1>10. toCore' \in Seq(ToCoreFrames) /\ CoreLess("data", t) /\ \A x : x # t => CoreSame(x)
  BY <1>1, <1>2, CoreReading
<1>11. CoreLess("data", t)
  BY <1>10
<1>12. SentToCore("data", t) > 0
  BY ONLY <1>11 DEF CoreLess
<1>13. FileTypes'
  BY ONLY <1>1, <1>2, <1>7, <1>8, <1>10 DEF FileTypes, CallSteps, AgentSame, CoreSame, KidsKept
<1>14. Only(t)
  BY ONLY <1>1, <1>2, <1>7, <1>8, <1>10 DEF FileTypes, Only, Unmoved, endVars, AgentSame, CoreSame, KidsKept
<1>15. Writing(t)' = Writing(t) /\ Writing(t) \in {0, 1}
  BY ONLY <1>3 DEF Writing
<1>16. Forwarding(t)' = Forwarding(t) /\ Forwarding(t) \in {0, 1}
  BY ONLY <1>3 DEF Forwarding
<1>17. Reached(t) /\ EndsKnown(t) /\ (t \in Uploads => UploadSound(t)) /\ (t \in Downloads => DownloadSound(t))
  BY <1>1 DEF SoundTransfer
<1>18. Reached(t)'
  BY ONLY <1>1, <1>17, <1>3, <1>6, <1>9, <1>11, <1>12, <1>15, <1>16 DEF NumbersAt, KidAt, AgentSame, CoreLess,
       Reached
<1>19. EndsKnown(t)'
  BY ONLY <1>1, <1>17, <1>3, <1>6, <1>9, <1>11, <1>12, <1>15, <1>16 DEF NumbersAt, KidAt, AgentSame, CoreLess,
       EndsKnown, Reached
<1>20. t \in Uploads => UploadSound(t)'
  BY ONLY <1>1, <1>17, <1>3, <1>6, <1>9, <1>11, <1>12, <1>15, <1>16 DEF NumbersAt, KidAt, AgentSame, CoreLess,
       UploadSound
<1>21. t \in Downloads => DownloadSound(t)'
  BY ONLY <1>1, <1>17, <1>3, <1>6, <1>9, <1>11, <1>12, <1>15, <1>16 DEF NumbersAt, KidAt, AgentSame, CoreLess,
       DownloadSound, AgentWindow, DownloadChunks
<1>22. QED
  BY <1>1, <1>13, <1>14, <1>18, <1>19, <1>20, <1>21, OneTransfer DEF SoundTransfer, NumbersAt, ToCoreFrames,
       ToAgentFrames

\* Credit of an upload returns.
LEMMA WindowTakenKeeps ==
    ASSUME FileInv, NEW t \in Transfers, CoreTakes("window", t)
    PROVE  FileTypes' /\ FileSound'
<1>1. NumbersAt(t) /\ SoundTransfer(t) /\ FileTypes /\ FileFlags
  BY Given
<1>2. /\ ~parentDone
      /\ toCore # <<>>
      /\ Head(toCore) = FileFrame("window", t)
      /\ toCore' = Tail(toCore)
      /\ kid[t].state = "open"
      /\ kid' = [kid EXCEPT ![t] = [kid[t] EXCEPT !.credit = @ + 1]]
      /\ UNCHANGED <<parentDone, agentDone, framesToAgent, op, stream, commit, cancel, agentKid, destination>>
  BY <1>1 DEF endVars, wires, FileFlags, FileTypes, NumbersAt, CoreTakes, Takes, Handled, Acknowledges,
       FileFrame, FailedKid
<1>3. /\ ~parentDone
      /\ kid[t].state = "open"
      /\ UNCHANGED <<parentDone, agentDone>>
      /\ op'[t] = op[t] /\ commit'[t] = commit[t] /\ cancel'[t] = cancel[t] /\ stream'[t] = stream[t] /\ agentKid'[t] = agentKid[t]
  BY <1>1, <1>2 DEF FileTypes
<1>4. kid[t].credit + 1 \in Nat
  BY ONLY <1>1, <1>3 DEF NumbersAt
<1>5. /\ kid \in [Transfers -> ClientKids] /\ kid[t] \in ClientKids /\ t \in Transfers
      /\ kid' = [kid EXCEPT ![t] = [kid[t] EXCEPT !.credit = @ + 1]]
  BY <1>1, <1>2 DEF FileTypes
<1>6. KidAt(t, kid[t].state, kid[t].accepted, kid[t].closing, kid[t].failed, kid[t].credit + 1, kid[t].queued)
  BY ONLY <1>5, <1>4 DEF KidAt, ClientKids
<1>7. KidsKept(t)
  BY ONLY <1>5, <1>4 DEF KidsKept, ClientKids
<1>8. framesToAgent' \in Seq(ToAgentFrames) /\ \A x : AgentSame(x)
  BY <1>1, <1>2, QuietWires
<1>9. AgentSame(t)
  BY <1>8
<1>10. toCore' \in Seq(ToCoreFrames) /\ CoreLess("window", t) /\ \A x : x # t => CoreSame(x)
  BY <1>1, <1>2, CoreReading
<1>11. CoreLess("window", t)
  BY <1>10
<1>12. SentToCore("window", t) > 0
  BY ONLY <1>11 DEF CoreLess
<1>13. FileTypes'
  BY ONLY <1>1, <1>2, <1>7, <1>8, <1>10 DEF FileTypes, CallSteps, AgentSame, CoreSame, KidsKept
<1>14. Only(t)
  BY ONLY <1>1, <1>2, <1>7, <1>8, <1>10 DEF FileTypes, Only, Unmoved, endVars, AgentSame, CoreSame, KidsKept
<1>15. Writing(t)' = Writing(t) /\ Writing(t) \in {0, 1}
  BY ONLY <1>3 DEF Writing
<1>16. Forwarding(t)' = Forwarding(t) /\ Forwarding(t) \in {0, 1}
  BY ONLY <1>3 DEF Forwarding
<1>17. Reached(t) /\ EndsKnown(t) /\ (t \in Uploads => UploadSound(t)) /\ (t \in Downloads => DownloadSound(t))
  BY <1>1 DEF SoundTransfer
<1>18. Reached(t)'
  BY ONLY <1>1, <1>17, <1>3, <1>6, <1>9, <1>11, <1>12, <1>15, <1>16 DEF NumbersAt, KidAt, AgentSame, CoreLess,
       Reached
<1>19. EndsKnown(t)'
  BY ONLY <1>1, <1>17, <1>3, <1>6, <1>9, <1>11, <1>12, <1>15, <1>16 DEF NumbersAt, KidAt, AgentSame, CoreLess,
       EndsKnown, Reached
<1>20. t \in Uploads => UploadSound(t)'
  BY ONLY <1>1, <1>17, <1>3, <1>6, <1>9, <1>11, <1>12, <1>15, <1>16 DEF NumbersAt, KidAt, AgentSame, CoreLess,
       UploadSound
<1>21. t \in Downloads => DownloadSound(t)'
  BY ONLY <1>1, <1>17, <1>3, <1>6, <1>9, <1>11, <1>12, <1>15, <1>16 DEF NumbersAt, KidAt, AgentSame, CoreLess,
       DownloadSound, AgentWindow, DownloadChunks
<1>22. QED
  BY <1>1, <1>13, <1>14, <1>18, <1>19, <1>20, <1>21, OneTransfer DEF SoundTransfer, NumbersAt, ToCoreFrames,
       ToAgentFrames

\* The agent reports an error, ...
LEMMA ErrorTakenKeeps == ASSUME FileInv, NEW t \in Transfers, CoreTakes("error", t) PROVE FileTypes' /\ FileSound'
<1>1. NumbersAt(t) /\ SoundTransfer(t) /\ FileTypes /\ FileFlags
  BY Given
<1>2. /\ ~parentDone
      /\ toCore # <<>>
      /\ Head(toCore) = FileFrame("error", t)
      /\ toCore' = Tail(toCore)
      /\ kid[t].state \in {"opening", "open"}
      /\ kid' = [kid EXCEPT ![t] = [kid[t] EXCEPT !.state = "done", !.failed = TRUE]]
      /\ UNCHANGED <<parentDone, agentDone, framesToAgent, op, stream, commit, cancel, agentKid, destination>>
  BY <1>1 DEF endVars, wires, FileFlags, FileTypes, NumbersAt, CoreTakes, Takes, Handled, Acknowledges,
       FileFrame, FailedKid
<1>3. /\ ~parentDone
      /\ kid[t].state \in {"opening", "open"}
      /\ UNCHANGED <<parentDone, agentDone>>
      /\ op'[t] = op[t] /\ commit'[t] = commit[t] /\ cancel'[t] = cancel[t] /\ stream'[t] = stream[t] /\ agentKid'[t] = agentKid[t]
  BY <1>1, <1>2 DEF FileTypes
<1>4. /\ kid \in [Transfers -> ClientKids] /\ kid[t] \in ClientKids /\ t \in Transfers
      /\ kid' = [kid EXCEPT ![t] = [kid[t] EXCEPT !.state = "done", !.failed = TRUE]]
  BY <1>1, <1>2 DEF FileTypes
<1>5. KidAt(t, "done", kid[t].accepted, kid[t].closing, TRUE, kid[t].credit, kid[t].queued)
  BY ONLY <1>4 DEF KidAt, ClientKids
<1>6. KidsKept(t)
  BY ONLY <1>4 DEF KidsKept, ClientKids
<1>7. framesToAgent' \in Seq(ToAgentFrames) /\ \A x : AgentSame(x)
  BY <1>1, <1>2, QuietWires
<1>8. AgentSame(t)
  BY <1>7
<1>9. toCore' \in Seq(ToCoreFrames) /\ CoreLess("error", t) /\ \A x : x # t => CoreSame(x)
  BY <1>1, <1>2, CoreReading
<1>10. CoreLess("error", t)
  BY <1>9
<1>11. SentToCore("error", t) > 0
  BY ONLY <1>10 DEF CoreLess
<1>12. FileTypes'
  BY ONLY <1>1, <1>2, <1>6, <1>7, <1>9 DEF FileTypes, CallSteps, AgentSame, CoreSame, KidsKept
<1>13. Only(t)
  BY ONLY <1>1, <1>2, <1>6, <1>7, <1>9 DEF FileTypes, Only, Unmoved, endVars, AgentSame, CoreSame, KidsKept
<1>14. Writing(t)' = Writing(t) /\ Writing(t) \in {0, 1}
  BY ONLY <1>3 DEF Writing
<1>15. Forwarding(t)' = Forwarding(t) /\ Forwarding(t) \in {0, 1}
  BY ONLY <1>3 DEF Forwarding
<1>16. Reached(t) /\ EndsKnown(t) /\ (t \in Uploads => UploadSound(t)) /\ (t \in Downloads => DownloadSound(t))
  BY <1>1 DEF SoundTransfer
<1>17. Reached(t)'
  BY ONLY <1>1, <1>16, <1>3, <1>5, <1>8, <1>10, <1>11, <1>14, <1>15 DEF NumbersAt, KidAt, AgentSame, CoreLess,
       Reached
<1>18. EndsKnown(t)'
  BY ONLY <1>1, <1>16, <1>3, <1>5, <1>8, <1>10, <1>11, <1>14, <1>15 DEF NumbersAt, KidAt, AgentSame, CoreLess,
       EndsKnown, Reached
<1>19. t \in Uploads => UploadSound(t)'
  BY ONLY <1>1, <1>16, <1>3, <1>5, <1>8, <1>10, <1>11, <1>14, <1>15 DEF NumbersAt, KidAt, AgentSame, CoreLess,
       UploadSound
<1>20. t \in Downloads => DownloadSound(t)'
  BY ONLY <1>1, <1>16, <1>3, <1>5, <1>8, <1>10, <1>11, <1>14, <1>15 DEF NumbersAt, KidAt, AgentSame, CoreLess,
       DownloadSound, AgentWindow, DownloadChunks
<1>21. QED
  BY <1>1, <1>12, <1>13, <1>17, <1>18, <1>19, <1>20, OneTransfer DEF SoundTransfer, NumbersAt, ToCoreFrames,
       ToAgentFrames

\* ... or it closes the child.
LEMMA CloseTakenKeeps ==
    ASSUME FileInv, NEW t \in Transfers, CoreTakes("peer_close", t)
    PROVE  FileTypes' /\ FileSound'
<1>1. NumbersAt(t) /\ SoundTransfer(t) /\ FileTypes /\ FileFlags
  BY Given
<1>2. /\ ~parentDone
      /\ toCore # <<>>
      /\ Head(toCore) = FileFrame("peer_close", t)
      /\ toCore' = Tail(toCore)
      /\ kid[t].state = "open" /\ kid[t].closing
      /\ kid' = [kid EXCEPT ![t] = [kid[t] EXCEPT !.state = "done"]]
      /\ UNCHANGED <<parentDone, agentDone, framesToAgent, op, stream, commit, cancel, agentKid, destination>>
  BY <1>1 DEF endVars, wires, FileFlags, FileTypes, NumbersAt, CoreTakes, Takes, Handled, Acknowledges,
       FileFrame, FailedKid
<1>3. /\ ~parentDone
      /\ kid[t].state = "open" /\ kid[t].closing
      /\ UNCHANGED <<parentDone, agentDone>>
      /\ op'[t] = op[t] /\ commit'[t] = commit[t] /\ cancel'[t] = cancel[t] /\ stream'[t] = stream[t] /\ agentKid'[t] = agentKid[t]
  BY <1>1, <1>2 DEF FileTypes
<1>4. /\ kid \in [Transfers -> ClientKids] /\ kid[t] \in ClientKids /\ t \in Transfers
      /\ kid' = [kid EXCEPT ![t] = [kid[t] EXCEPT !.state = "done"]]
  BY <1>1, <1>2 DEF FileTypes
<1>5. KidAt(t, "done", kid[t].accepted, kid[t].closing, kid[t].failed, kid[t].credit, kid[t].queued)
  BY ONLY <1>4 DEF KidAt, ClientKids
<1>6. KidsKept(t)
  BY ONLY <1>4 DEF KidsKept, ClientKids
<1>7. framesToAgent' \in Seq(ToAgentFrames) /\ \A x : AgentSame(x)
  BY <1>1, <1>2, QuietWires
<1>8. AgentSame(t)
  BY <1>7
<1>9. toCore' \in Seq(ToCoreFrames) /\ CoreLess("peer_close", t) /\ \A x : x # t => CoreSame(x)
  BY <1>1, <1>2, CoreReading
<1>10. CoreLess("peer_close", t)
  BY <1>9
<1>11. SentToCore("peer_close", t) > 0
  BY ONLY <1>10 DEF CoreLess
<1>12. FileTypes'
  BY ONLY <1>1, <1>2, <1>6, <1>7, <1>9 DEF FileTypes, CallSteps, AgentSame, CoreSame, KidsKept
<1>13. Only(t)
  BY ONLY <1>1, <1>2, <1>6, <1>7, <1>9 DEF FileTypes, Only, Unmoved, endVars, AgentSame, CoreSame, KidsKept
<1>14. Writing(t)' = Writing(t) /\ Writing(t) \in {0, 1}
  BY ONLY <1>3 DEF Writing
<1>15. Forwarding(t)' = Forwarding(t) /\ Forwarding(t) \in {0, 1}
  BY ONLY <1>3 DEF Forwarding
<1>16. Reached(t) /\ EndsKnown(t) /\ (t \in Uploads => UploadSound(t)) /\ (t \in Downloads => DownloadSound(t))
  BY <1>1 DEF SoundTransfer
<1>17. Reached(t)'
  BY ONLY <1>1, <1>16, <1>3, <1>5, <1>8, <1>10, <1>11, <1>14, <1>15 DEF NumbersAt, KidAt, AgentSame, CoreLess,
       Reached
<1>18. EndsKnown(t)'
  BY ONLY <1>1, <1>16, <1>3, <1>5, <1>8, <1>10, <1>11, <1>14, <1>15 DEF NumbersAt, KidAt, AgentSame, CoreLess,
       EndsKnown, Reached
<1>19. t \in Uploads => UploadSound(t)'
  BY ONLY <1>1, <1>16, <1>3, <1>5, <1>8, <1>10, <1>11, <1>14, <1>15 DEF NumbersAt, KidAt, AgentSame, CoreLess,
       UploadSound
<1>20. t \in Downloads => DownloadSound(t)'
  BY ONLY <1>1, <1>16, <1>3, <1>5, <1>8, <1>10, <1>11, <1>14, <1>15 DEF NumbersAt, KidAt, AgentSame, CoreLess,
       DownloadSound, AgentWindow, DownloadChunks
<1>21. QED
  BY <1>1, <1>12, <1>13, <1>17, <1>18, <1>19, <1>20, OneTransfer DEF SoundTransfer, NumbersAt, ToCoreFrames,
       ToAgentFrames

\* The monitor looks whether the child to complete is closing.
LEMMA CompleteSeenKeeps == ASSUME FileInv, CompleteSeen PROVE FileTypes' /\ FileSound'
<1>1. PICK t \in Transfers :
         /\ kid' = [kid EXCEPT ![t].completing = TRUE]
         /\ UNCHANGED <<parentDone, agentDone, framesToAgent, toCore, op, stream, commit, cancel, agentKid, destination>>
  <2>1. Head(toCore) \in ToCoreFrames
    BY HeadTailProperties DEF FileInv, FileTypes, CompleteSeen
  <2>2. Head(toCore).t \in Transfers
    BY <2>1 DEF ToCoreFrames
  <2>3. QED
    BY <2>2 DEF CompleteSeen, wires, endVars
<1>2. NumbersAt(t) /\ SoundTransfer(t) /\ FileTypes /\ FileFlags
  BY Given
<1>3. /\ kid \in [Transfers -> ClientKids] /\ kid[t] \in ClientKids /\ t \in Transfers
      /\ kid' = [kid EXCEPT ![t] = [kid[t] EXCEPT !.completing = TRUE]]
  BY <1>1, <1>2 DEF FileTypes
<1>4. KidAt(t, kid[t].state, kid[t].accepted, kid[t].closing, kid[t].failed, kid[t].credit, kid[t].queued)
  BY ONLY <1>3 DEF KidAt, ClientKids
<1>5. KidsKept(t)
  BY ONLY <1>3 DEF KidsKept, ClientKids
<1>6. framesToAgent' \in Seq(ToAgentFrames) /\ \A x : AgentSame(x)
  BY <1>1, <1>2, QuietWires
<1>7. toCore' \in Seq(ToCoreFrames) /\ \A x : CoreSame(x)
  BY <1>1, <1>2, QuietWires
<1>8. FileTypes'
  BY ONLY <1>1, <1>2, <1>5, <1>6, <1>7 DEF FileTypes, CallSteps, KidsKept
<1>9. Only(t)
  BY ONLY <1>1, <1>2, <1>5, <1>6, <1>7 DEF FileTypes, Only, Unmoved, endVars, AgentSame, CoreSame, KidsKept
<1>10. AgentSame(t) /\ CoreSame(t) /\ Writing(t)' = Writing(t) /\ Forwarding(t)' = Forwarding(t)
  BY ONLY <1>1, <1>6, <1>7 DEF Writing, Forwarding
<1>11. /\ UNCHANGED <<parentDone, agentDone>> /\ op'[t] = op[t] /\ commit'[t] = commit[t] /\ cancel'[t] = cancel[t]
       /\ stream'[t] = stream[t] /\ agentKid'[t] = agentKid[t]
  BY <1>1
<1>12. Reached(t) /\ EndsKnown(t) /\ (t \in Uploads => UploadSound(t)) /\ (t \in Downloads => DownloadSound(t))
  BY <1>2 DEF SoundTransfer
<1>13. Reached(t)' /\ EndsKnown(t)'
  BY ONLY <1>12, <1>4, <1>10, <1>11 DEF KidAt, AgentSame, CoreSame, EndsKnown, Reached
<1>14. t \in Uploads => UploadSound(t)'
  BY ONLY <1>12, <1>4, <1>10, <1>11 DEF KidAt, AgentSame, CoreSame, UploadSound
<1>15. t \in Downloads => DownloadSound(t)'
  BY ONLY <1>12, <1>4, <1>10, <1>11 DEF KidAt, AgentSame, CoreSame, DownloadSound, AgentWindow, DownloadChunks
<1>16. QED
  BY <1>2, <1>8, <1>9, <1>13, <1>14, <1>15, OneTransfer DEF SoundTransfer

\* The agent has sent the whole file, to a child that was not closing when the monitor looked ...
LEMMA CompleteTakenKeeps ==
    ASSUME FileInv, NEW t \in Transfers, CoreTakes("download_complete", t), kid[t].completing
    PROVE  FileTypes' /\ FileSound'
<1>1. NumbersAt(t) /\ SoundTransfer(t) /\ FileTypes /\ FileFlags
  BY Given
<1>2. /\ ~parentDone
      /\ toCore # <<>>
      /\ Head(toCore) = FileFrame("download_complete", t)
      /\ toCore' = Tail(toCore)
      /\ kid[t].state = "open" /\ kid[t].completing
      /\ kid' = [kid EXCEPT ![t] = [kid[t] EXCEPT !.state = "done"]]
      /\ CoreWrites(FileFrame("close", t))
      /\ UNCHANGED <<parentDone, agentDone, op, stream, commit, cancel, agentKid, destination>>
  BY <1>1 DEF endVars, wires, FileFlags, FileTypes, NumbersAt, CoreTakes, Takes, Handled, Acknowledges,
       FileFrame, FailedKid
<1>3. /\ ~parentDone
      /\ kid[t].state = "open" /\ kid[t].completing
      /\ UNCHANGED <<parentDone, agentDone>>
      /\ op'[t] = op[t] /\ commit'[t] = commit[t] /\ cancel'[t] = cancel[t] /\ stream'[t] = stream[t] /\ agentKid'[t] = agentKid[t]
  BY <1>1, <1>2 DEF FileTypes
<1>4. /\ kid \in [Transfers -> ClientKids] /\ kid[t] \in ClientKids /\ t \in Transfers
      /\ kid' = [kid EXCEPT ![t] = [kid[t] EXCEPT !.state = "done"]]
  BY <1>1, <1>2 DEF FileTypes
<1>5. KidAt(t, "done", kid[t].accepted, kid[t].closing, kid[t].failed, kid[t].credit, kid[t].queued)
  BY ONLY <1>4 DEF KidAt, ClientKids
<1>6. KidsKept(t)
  BY ONLY <1>4 DEF KidsKept, ClientKids
<1>7. PICK n \in {0, 1} : AgentWire(n, "close", t) /\ (n = 0 <=> agentDone)
  BY <1>1, <1>2, CoreWriting DEF CoreWrites, ToAgentFrames, FileFrame, FileFlags
<1>8. AgentAt(n, "close", t) /\ n \in {0, 1} /\ (n = 0 <=> agentDone)
  BY <1>7 DEF AgentWire, AgentAt
<1>9. toCore' \in Seq(ToCoreFrames) /\ CoreLess("download_complete", t) /\ \A x : x # t => CoreSame(x)
  BY <1>1, <1>2, CoreReading
<1>10. CoreLess("download_complete", t)
  BY <1>9
<1>11. SentToCore("download_complete", t) > 0
  BY ONLY <1>10 DEF CoreLess
<1>12. FileTypes'
  BY ONLY <1>1, <1>2, <1>6, <1>7, <1>9 DEF FileTypes, CallSteps, AgentWire, CoreSame, KidsKept
<1>13. Only(t)
  BY ONLY <1>1, <1>2, <1>6, <1>7, <1>9 DEF FileTypes, Only, Unmoved, endVars, AgentWire, CoreSame, KidsKept
<1>14. /\ t \in Downloads /\ agentKid[t].forward = "returned" /\ agentKid[t].chunks = 0
      /\ SentToCore("data", t) = 0 /\ DownloadChunks(t) = FileChunks
  BY ONLY <1>1, <1>3, <1>5, <1>8, <1>10, <1>11 DEF SoundTransfer, NumbersAt, KidAt, AgentAt, CoreLess,
       UploadSound, DownloadSound
<1>15. Writing(t)' = Writing(t) /\ Writing(t) \in {0, 1}
  BY ONLY <1>3, <1>14 DEF Writing
<1>16. Forwarding(t) = 0 /\ Forwarding(t)' = 0
  BY ONLY <1>3, <1>14 DEF Forwarding
<1>17. Reached(t) /\ EndsKnown(t) /\ (t \in Uploads => UploadSound(t)) /\ (t \in Downloads => DownloadSound(t))
  BY <1>1 DEF SoundTransfer
<1>18. Reached(t)'
  BY ONLY <1>1, <1>17, <1>3, <1>5, <1>8, <1>10, <1>11, <1>14, <1>15, <1>16 DEF NumbersAt, KidAt, AgentAt,
       CoreLess, Reached
<1>19. EndsKnown(t)'
  BY ONLY <1>1, <1>17, <1>3, <1>5, <1>8, <1>10, <1>11, <1>14, <1>15, <1>16 DEF NumbersAt, KidAt, AgentAt,
       CoreLess, EndsKnown, Reached
<1>20. t \in Uploads => UploadSound(t)'
  BY ONLY <1>1, <1>17, <1>3, <1>5, <1>8, <1>10, <1>11, <1>14, <1>15, <1>16 DEF NumbersAt, KidAt, AgentAt,
       CoreLess, UploadSound
<1>21. t \in Downloads => DownloadSound(t)'
  BY ONLY <1>1, <1>17, <1>3, <1>5, <1>8, <1>10, <1>11, <1>14, <1>15, <1>16 DEF NumbersAt, KidAt, AgentAt,
       CoreLess, DownloadSound, AgentWindow, DownloadChunks
<1>22. QED
  BY <1>1, <1>12, <1>13, <1>18, <1>19, <1>20, <1>21, OneTransfer DEF SoundTransfer, NumbersAt, ToCoreFrames,
       ToAgentFrames

\* ... or to one that was.
LEMMA CompleteIgnoredKeeps ==
    ASSUME FileInv, NEW t \in Transfers, CoreTakes("download_complete", t), ~kid[t].completing
    PROVE  FileTypes' /\ FileSound'
<1>1. NumbersAt(t) /\ SoundTransfer(t) /\ FileTypes /\ FileFlags
  BY Given
<1>2. /\ ~parentDone
      /\ toCore # <<>>
      /\ Head(toCore) = FileFrame("download_complete", t)
      /\ toCore' = Tail(toCore)
      /\ kid[t].state = "open" /\ ~kid[t].completing
      /\ UNCHANGED <<parentDone, agentDone, framesToAgent, op, kid, stream, commit, cancel, agentKid, destination>>
  BY <1>1 DEF endVars, wires, FileFlags, FileTypes, NumbersAt, CoreTakes, Takes, Handled, Acknowledges,
       FileFrame, FailedKid
<1>3. /\ ~parentDone
      /\ kid[t].state = "open" /\ ~kid[t].completing
      /\ UNCHANGED <<parentDone, agentDone>>
      /\ op'[t] = op[t] /\ commit'[t] = commit[t] /\ cancel'[t] = cancel[t] /\ kid'[t] = kid[t] /\ stream'[t] = stream[t] /\ agentKid'[t] = agentKid[t]
  BY <1>1, <1>2 DEF FileTypes
<1>4. framesToAgent' \in Seq(ToAgentFrames) /\ \A x : AgentSame(x)
  BY <1>1, <1>2, QuietWires
<1>5. AgentSame(t)
  BY <1>4
<1>6. toCore' \in Seq(ToCoreFrames) /\ CoreLess("download_complete", t) /\ \A x : x # t => CoreSame(x)
  BY <1>1, <1>2, CoreReading
<1>7. CoreLess("download_complete", t)
  BY <1>6
<1>8. SentToCore("download_complete", t) > 0
  BY ONLY <1>7 DEF CoreLess
<1>9. FileTypes'
  BY ONLY <1>1, <1>2, <1>4, <1>6 DEF FileTypes, CallSteps, AgentSame, CoreSame
<1>10. Only(t)
  BY ONLY <1>1, <1>2, <1>4, <1>6 DEF FileTypes, Only, Unmoved, endVars, AgentSame, CoreSame
<1>11. Writing(t)' = Writing(t) /\ Writing(t) \in {0, 1}
  BY ONLY <1>3 DEF Writing
<1>12. Forwarding(t)' = Forwarding(t) /\ Forwarding(t) \in {0, 1}
  BY ONLY <1>3 DEF Forwarding
<1>13. Reached(t) /\ EndsKnown(t) /\ (t \in Uploads => UploadSound(t)) /\ (t \in Downloads => DownloadSound(t))
  BY <1>1 DEF SoundTransfer
<1>14. Reached(t)'
  BY ONLY <1>1, <1>13, <1>3, <1>5, <1>7, <1>8, <1>11, <1>12 DEF NumbersAt, AgentSame, CoreLess, Reached
<1>15. EndsKnown(t)'
  BY ONLY <1>1, <1>13, <1>3, <1>5, <1>7, <1>8, <1>11, <1>12 DEF NumbersAt, AgentSame, CoreLess, EndsKnown, Reached
<1>16. t \in Uploads => UploadSound(t)'
  BY ONLY <1>1, <1>13, <1>3, <1>5, <1>7, <1>8, <1>11, <1>12 DEF NumbersAt, AgentSame, CoreLess, UploadSound
<1>17. t \in Downloads => DownloadSound(t)'
  BY ONLY <1>1, <1>13, <1>3, <1>5, <1>7, <1>8, <1>11, <1>12 DEF NumbersAt, AgentSame, CoreLess, DownloadSound,
       AgentWindow, DownloadChunks
<1>18. QED
  BY <1>1, <1>9, <1>10, <1>14, <1>15, <1>16, <1>17, OneTransfer DEF SoundTransfer, NumbersAt, ToCoreFrames,
       ToAgentFrames

\* The agent stages an upload, ...
LEMMA UploadOpenedKeeps ==
    ASSUME FileInv, NEW t \in Transfers, AgentTakes("open", t), t \in Uploads, NEW sized \in BOOLEAN, agentKid'
           = [agentKid EXCEPT ![t] = StagedUpload(sized)], AgentWrites(FileFrame("accepted", t)), UNCHANGED
           destination
    PROVE  FileTypes' /\ FileSound'
<1>1. NumbersAt(t) /\ SoundTransfer(t) /\ FileTypes /\ FileFlags
  BY Given
<1>2. /\ ~agentDone
      /\ framesToAgent # <<>>
      /\ Head(framesToAgent) = FileFrame("open", t)
      /\ framesToAgent' = Tail(framesToAgent)
      /\ t \in Uploads /\ agentKid[t].state = "none" /\ sized \in BOOLEAN
      /\ agentKid' = [agentKid EXCEPT ![t] = [state |-> "open", credit |-> FileWindow, chunks |-> 0, stage |-> "open", sized |-> sized, forward |-> "none"]]
      /\ AgentWrites(FileFrame("accepted", t))
      /\ UNCHANGED <<parentDone, agentDone, op, kid, stream, commit, cancel, destination>>
  BY <1>1 DEF endVars, wires, FileFlags, FileTypes, AgentTakes, Valid, FileFrame, ClosedKid, Unstaged,
       StagedUpload, OpenedDownload, RefuseFile, StageChunk
<1>3. /\ ~agentDone
      /\ t \in Uploads /\ agentKid[t].state = "none" /\ sized \in BOOLEAN
      /\ UNCHANGED <<parentDone, agentDone>>
      /\ op'[t] = op[t] /\ commit'[t] = commit[t] /\ cancel'[t] = cancel[t] /\ kid'[t] = kid[t] /\ stream'[t] = stream[t]
  BY <1>1, <1>2 DEF FileTypes
<1>4. FileWindow \in Nat /\ sized \in BOOLEAN
  BY ONLY <1>1, <1>3 DEF NumbersAt
<1>5. /\ agentKid \in [Transfers -> ServedKids] /\ agentKid[t] \in ServedKids /\ t \in Transfers
      /\ agentKid' = [agentKid EXCEPT ![t] = [state |-> "open", credit |-> FileWindow, chunks |-> 0, stage |-> "open", sized |-> sized, forward |-> "none"]]
  BY <1>1, <1>2 DEF FileTypes
<1>6. ServedAt(t, "open", FileWindow, 0, "open", "none")
  BY ONLY <1>5, <1>4 DEF ServedAt, ServedKids
<1>7. ServedKept(t)
  BY ONLY <1>5, <1>4 DEF ServedKept, ServedKids
<1>8. framesToAgent' \in Seq(ToAgentFrames) /\ AgentLess("open", t) /\ \A x : x # t => AgentSame(x)
  BY <1>1, <1>2, AgentReading
<1>9. AgentLess("open", t)
  BY <1>8
<1>10. SentToAgent("open", t) > 0
  BY ONLY <1>9 DEF AgentLess
<1>11. PICK n \in {0, 1} : CoreWire(n, "accepted", t) /\ (n = 0 <=> parentDone)
  BY <1>1, <1>2, AgentWriting DEF AgentWrites, ToCoreFrames, FileFrame, FileFlags
<1>12. CoreAt(n, "accepted", t) /\ n \in {0, 1} /\ (n = 0 <=> parentDone)
  BY <1>11 DEF CoreWire, CoreAt
<1>13. FileTypes'
  BY ONLY <1>1, <1>2, <1>7, <1>8, <1>11 DEF FileTypes, CallSteps, AgentSame, CoreWire, ServedKept
<1>14. Only(t)
  BY ONLY <1>1, <1>2, <1>7, <1>8, <1>11 DEF FileTypes, Only, Unmoved, endVars, AgentSame, CoreWire, ServedKept
<1>15. /\ stream[t].step = "idle" /\ stream[t].count = 0 /\ kid[t].queued = 0 /\ ~kid[t].accepted /\ kid[t].state # "none"
      /\ SentToAgent("data", t) = 0 /\ SentToAgent("window", t) = 0 /\ SentToCore("data", t) = 0 /\ SentToCore("download_complete", t) = 0
      /\ SentToCore("window", t) = 0 /\ SentToAgent("close", t) = 0 /\ SentToAgent("open", t)' = 0 /\ agentKid[t].forward = "none"
  BY ONLY <1>1, <1>3, <1>6, <1>9, <1>10, <1>12 DEF SoundTransfer, NumbersAt, ServedAt, AgentLess, CoreAt, Reached
<1>16. Writing(t) = 0 /\ Writing(t)' = 0
  BY ONLY <1>3, <1>15 DEF Writing
<1>17. Forwarding(t) = 0 /\ Forwarding(t)' = 0
  BY ONLY <1>3, <1>15, <1>6 DEF Forwarding, ServedAt
<1>18. Reached(t) /\ EndsKnown(t) /\ (t \in Uploads => UploadSound(t)) /\ (t \in Downloads => DownloadSound(t))
  BY <1>1 DEF SoundTransfer
<1>19. Reached(t)'
  BY ONLY <1>1, <1>18, <1>3, <1>6, <1>9, <1>10, <1>12, <1>15, <1>16, <1>17 DEF NumbersAt, ServedAt, AgentLess,
       CoreAt, Reached
<1>20. EndsKnown(t)'
  BY ONLY <1>1, <1>18, <1>3, <1>6, <1>9, <1>10, <1>12, <1>15, <1>16, <1>17 DEF NumbersAt, ServedAt, AgentLess,
       CoreAt, EndsKnown, Reached
<1>21. t \in Uploads => UploadSound(t)'
  BY ONLY <1>1, <1>18, <1>3, <1>6, <1>9, <1>10, <1>12, <1>15, <1>16, <1>17 DEF NumbersAt, ServedAt, AgentLess,
       CoreAt, UploadSound
<1>22. t \in Downloads => DownloadSound(t)'
  BY ONLY <1>1, <1>18, <1>3, <1>6, <1>9, <1>10, <1>12, <1>15, <1>16, <1>17 DEF NumbersAt, ServedAt, AgentLess,
       CoreAt, DownloadSound, AgentWindow, DownloadChunks
<1>23. QED
  BY <1>1, <1>13, <1>14, <1>19, <1>20, <1>21, <1>22, OneTransfer DEF SoundTransfer, NumbersAt, ToCoreFrames,
       ToAgentFrames

\* ... opens the file of a download ...
LEMMA DownloadOpenedKeeps ==
    ASSUME FileInv, NEW t \in Transfers, AgentTakes("open", t), t \in Downloads, agentKid' = [agentKid EXCEPT
           ![t] = OpenedDownload], AgentWrites(FileFrame("accepted", t)), UNCHANGED destination
    PROVE  FileTypes' /\ FileSound'
<1>1. NumbersAt(t) /\ SoundTransfer(t) /\ FileTypes /\ FileFlags
  BY Given
<1>2. /\ ~agentDone
      /\ framesToAgent # <<>>
      /\ Head(framesToAgent) = FileFrame("open", t)
      /\ framesToAgent' = Tail(framesToAgent)
      /\ t \in Downloads /\ agentKid[t].state = "none"
      /\ agentKid' = [agentKid EXCEPT ![t] = [state |-> "open", credit |-> FileWindow, chunks |-> FileChunks, stage |-> "none", sized |-> FALSE, forward |-> "ready"]]
      /\ AgentWrites(FileFrame("accepted", t))
      /\ UNCHANGED <<parentDone, agentDone, op, kid, stream, commit, cancel, destination>>
  BY <1>1 DEF endVars, wires, FileFlags, FileTypes, AgentTakes, Valid, FileFrame, ClosedKid, Unstaged,
       StagedUpload, OpenedDownload, RefuseFile, StageChunk
<1>3. /\ ~agentDone
      /\ t \in Downloads /\ agentKid[t].state = "none"
      /\ UNCHANGED <<parentDone, agentDone>>
      /\ op'[t] = op[t] /\ commit'[t] = commit[t] /\ cancel'[t] = cancel[t] /\ kid'[t] = kid[t] /\ stream'[t] = stream[t]
  BY <1>1, <1>2 DEF FileTypes
<1>4. FileWindow \in Nat /\ FileChunks \in Nat
  BY ONLY <1>1, <1>3 DEF NumbersAt
<1>5. /\ agentKid \in [Transfers -> ServedKids] /\ agentKid[t] \in ServedKids /\ t \in Transfers
      /\ agentKid' = [agentKid EXCEPT ![t] = [state |-> "open", credit |-> FileWindow, chunks |-> FileChunks, stage |-> "none", sized |-> FALSE, forward |-> "ready"]]
  BY <1>1, <1>2 DEF FileTypes
<1>6. ServedAt(t, "open", FileWindow, FileChunks, "none", "ready")
  BY ONLY <1>5, <1>4 DEF ServedAt, ServedKids
<1>7. ServedKept(t)
  BY ONLY <1>5, <1>4 DEF ServedKept, ServedKids
<1>8. framesToAgent' \in Seq(ToAgentFrames) /\ AgentLess("open", t) /\ \A x : x # t => AgentSame(x)
  BY <1>1, <1>2, AgentReading
<1>9. AgentLess("open", t)
  BY <1>8
<1>10. SentToAgent("open", t) > 0
  BY ONLY <1>9 DEF AgentLess
<1>11. PICK n \in {0, 1} : CoreWire(n, "accepted", t) /\ (n = 0 <=> parentDone)
  BY <1>1, <1>2, AgentWriting DEF AgentWrites, ToCoreFrames, FileFrame, FileFlags
<1>12. CoreAt(n, "accepted", t) /\ n \in {0, 1} /\ (n = 0 <=> parentDone)
  BY <1>11 DEF CoreWire, CoreAt
<1>13. FileTypes'
  BY ONLY <1>1, <1>2, <1>7, <1>8, <1>11 DEF FileTypes, CallSteps, AgentSame, CoreWire, ServedKept
<1>14. Only(t)
  BY ONLY <1>1, <1>2, <1>7, <1>8, <1>11 DEF FileTypes, Only, Unmoved, endVars, AgentSame, CoreWire, ServedKept
<1>15. /\ stream[t].step = "idle" /\ stream[t].count = 0 /\ kid[t].queued = 0 /\ ~kid[t].accepted /\ kid[t].state # "none"
      /\ SentToAgent("data", t) = 0 /\ SentToAgent("window", t) = 0 /\ SentToCore("data", t) = 0 /\ SentToCore("download_complete", t) = 0
      /\ SentToCore("window", t) = 0 /\ SentToAgent("close", t) = 0 /\ SentToAgent("open", t)' = 0 /\ agentKid[t].forward = "none"
  BY ONLY <1>1, <1>3, <1>6, <1>9, <1>10, <1>12 DEF SoundTransfer, NumbersAt, ServedAt, AgentLess, CoreAt, Reached
<1>16. Writing(t) = 0 /\ Writing(t)' = 0
  BY ONLY <1>3, <1>15 DEF Writing
<1>17. Forwarding(t) = 0 /\ Forwarding(t)' = 0
  BY ONLY <1>3, <1>15, <1>6 DEF Forwarding, ServedAt
<1>18. Reached(t) /\ EndsKnown(t) /\ (t \in Uploads => UploadSound(t)) /\ (t \in Downloads => DownloadSound(t))
  BY <1>1 DEF SoundTransfer
<1>19. Reached(t)'
  BY ONLY <1>1, <1>18, <1>3, <1>6, <1>9, <1>10, <1>12, <1>15, <1>16, <1>17 DEF NumbersAt, ServedAt, AgentLess,
       CoreAt, Reached
<1>20. EndsKnown(t)'
  BY ONLY <1>1, <1>18, <1>3, <1>6, <1>9, <1>10, <1>12, <1>15, <1>16, <1>17 DEF NumbersAt, ServedAt, AgentLess,
       CoreAt, EndsKnown, Reached
<1>21. t \in Uploads => UploadSound(t)'
  BY ONLY <1>1, <1>18, <1>3, <1>6, <1>9, <1>10, <1>12, <1>15, <1>16, <1>17 DEF NumbersAt, ServedAt, AgentLess,
       CoreAt, UploadSound
<1>22. t \in Downloads => DownloadSound(t)'
  BY ONLY <1>1, <1>18, <1>3, <1>6, <1>9, <1>10, <1>12, <1>15, <1>16, <1>17 DEF NumbersAt, ServedAt, AgentLess,
       CoreAt, DownloadSound, AgentWindow, DownloadChunks
<1>23. QED
  BY <1>1, <1>13, <1>14, <1>19, <1>20, <1>21, <1>22, OneTransfer DEF SoundTransfer, NumbersAt, ToCoreFrames,
       ToAgentFrames

\* ... or refuses.
LEMMA FileRefusedKeeps ==
    ASSUME FileInv, NEW t \in Transfers, AgentTakes("open", t), RefuseFile(t), AgentWrites(FileFrame("error",
           t)), UNCHANGED destination
    PROVE  FileTypes' /\ FileSound'
<1>1. NumbersAt(t) /\ SoundTransfer(t) /\ FileTypes /\ FileFlags
  BY Given
<1>2. /\ ~agentDone
      /\ framesToAgent # <<>>
      /\ Head(framesToAgent) = FileFrame("open", t)
      /\ framesToAgent' = Tail(framesToAgent)
      /\ agentKid[t].state = "none"
      /\ agentKid' = [agentKid EXCEPT ![t].state = "closed"]
      /\ AgentWrites(FileFrame("error", t))
      /\ UNCHANGED <<parentDone, agentDone, op, kid, stream, commit, cancel, destination>>
  BY <1>1 DEF endVars, wires, FileFlags, FileTypes, AgentTakes, Valid, FileFrame, ClosedKid, Unstaged,
       StagedUpload, OpenedDownload, RefuseFile, StageChunk
<1>3. /\ ~agentDone
      /\ agentKid[t].state = "none"
      /\ UNCHANGED <<parentDone, agentDone>>
      /\ op'[t] = op[t] /\ commit'[t] = commit[t] /\ cancel'[t] = cancel[t] /\ kid'[t] = kid[t] /\ stream'[t] = stream[t]
  BY <1>1, <1>2 DEF FileTypes
<1>4. /\ agentKid \in [Transfers -> ServedKids] /\ agentKid[t] \in ServedKids /\ t \in Transfers
      /\ agentKid' = [agentKid EXCEPT ![t].state = "closed"]
  BY <1>1, <1>2 DEF FileTypes
<1>5. ServedAt(t, "closed", agentKid[t].credit, agentKid[t].chunks, agentKid[t].stage, agentKid[t].forward)
  BY ONLY <1>4 DEF ServedAt, ServedKids
<1>6. ServedKept(t)
  BY ONLY <1>4 DEF ServedKept, ServedKids
<1>7. framesToAgent' \in Seq(ToAgentFrames) /\ AgentLess("open", t) /\ \A x : x # t => AgentSame(x)
  BY <1>1, <1>2, AgentReading
<1>8. AgentLess("open", t)
  BY <1>7
<1>9. SentToAgent("open", t) > 0
  BY ONLY <1>8 DEF AgentLess
<1>10. PICK n \in {0, 1} : CoreWire(n, "error", t) /\ (n = 0 <=> parentDone)
  BY <1>1, <1>2, AgentWriting DEF AgentWrites, ToCoreFrames, FileFrame, FileFlags
<1>11. CoreAt(n, "error", t) /\ n \in {0, 1} /\ (n = 0 <=> parentDone)
  BY <1>10 DEF CoreWire, CoreAt
<1>12. FileTypes'
  BY ONLY <1>1, <1>2, <1>6, <1>7, <1>10 DEF FileTypes, CallSteps, AgentSame, CoreWire, ServedKept
<1>13. Only(t)
  BY ONLY <1>1, <1>2, <1>6, <1>7, <1>10 DEF FileTypes, Only, Unmoved, endVars, AgentSame, CoreWire, ServedKept
<1>14. /\ stream[t].step = "idle" /\ stream[t].count = 0 /\ kid[t].queued = 0 /\ ~kid[t].accepted /\ kid[t].state # "none"
      /\ SentToAgent("data", t) = 0 /\ SentToAgent("window", t) = 0 /\ SentToCore("data", t) = 0 /\ SentToCore("download_complete", t) = 0
      /\ SentToCore("window", t) = 0 /\ SentToAgent("close", t) = 0 /\ SentToAgent("open", t)' = 0 /\ agentKid[t].forward = "none"
  BY ONLY <1>1, <1>3, <1>5, <1>8, <1>9, <1>11 DEF SoundTransfer, NumbersAt, ServedAt, AgentLess, CoreAt, Reached
<1>15. Writing(t) = 0 /\ Writing(t)' = 0
  BY ONLY <1>3, <1>14 DEF Writing
<1>16. Forwarding(t)' = Forwarding(t) /\ Forwarding(t) \in {0, 1}
  BY ONLY <1>3, <1>14, <1>5 DEF Forwarding, ServedAt
<1>17. Reached(t) /\ EndsKnown(t) /\ (t \in Uploads => UploadSound(t)) /\ (t \in Downloads => DownloadSound(t))
  BY <1>1 DEF SoundTransfer
<1>18. Reached(t)'
  BY ONLY <1>1, <1>17, <1>3, <1>5, <1>8, <1>9, <1>11, <1>14, <1>15, <1>16 DEF NumbersAt, ServedAt, AgentLess,
       CoreAt, Reached
<1>19. EndsKnown(t)'
  BY ONLY <1>1, <1>17, <1>3, <1>5, <1>8, <1>9, <1>11, <1>14, <1>15, <1>16 DEF NumbersAt, ServedAt, AgentLess,
       CoreAt, EndsKnown, Reached
<1>20. t \in Uploads => UploadSound(t)'
  BY ONLY <1>1, <1>17, <1>3, <1>5, <1>8, <1>9, <1>11, <1>14, <1>15, <1>16 DEF NumbersAt, ServedAt, AgentLess,
       CoreAt, UploadSound
<1>21. t \in Downloads => DownloadSound(t)'
  BY ONLY <1>1, <1>17, <1>3, <1>5, <1>8, <1>9, <1>11, <1>14, <1>15, <1>16 DEF NumbersAt, ServedAt, AgentLess,
       CoreAt, DownloadSound, AgentWindow, DownloadChunks
<1>22. QED
  BY <1>1, <1>12, <1>13, <1>18, <1>19, <1>20, <1>21, OneTransfer DEF SoundTransfer, NumbersAt, ToCoreFrames,
       ToAgentFrames

\* A chunk is staged ...
LEMMA ChunkStagedKeeps ==
    ASSUME FileInv, NEW t \in Transfers, AgentTakes("data", t), StageChunk(t), AgentWrites(FileFrame("window",
           t)), UNCHANGED destination
    PROVE  FileTypes' /\ FileSound'
<1>1. NumbersAt(t) /\ SoundTransfer(t) /\ FileTypes /\ FileFlags
  BY Given
<1>2. /\ ~agentDone
      /\ framesToAgent # <<>>
      /\ Head(framesToAgent) = FileFrame("data", t)
      /\ framesToAgent' = Tail(framesToAgent)
      /\ t \in Uploads /\ agentKid[t].state = "open" /\ agentKid[t].chunks < FileChunks
      /\ agentKid' = [agentKid EXCEPT ![t].chunks = @ + 1]
      /\ AgentWrites(FileFrame("window", t))
      /\ UNCHANGED <<parentDone, agentDone, op, kid, stream, commit, cancel, destination>>
  BY <1>1 DEF endVars, wires, FileFlags, FileTypes, AgentTakes, Valid, FileFrame, ClosedKid, Unstaged,
       StagedUpload, OpenedDownload, RefuseFile, StageChunk
<1>3. /\ ~agentDone
      /\ t \in Uploads /\ agentKid[t].state = "open" /\ agentKid[t].chunks < FileChunks
      /\ UNCHANGED <<parentDone, agentDone>>
      /\ op'[t] = op[t] /\ commit'[t] = commit[t] /\ cancel'[t] = cancel[t] /\ kid'[t] = kid[t] /\ stream'[t] = stream[t]
  BY <1>1, <1>2 DEF FileTypes
<1>4. agentKid[t].chunks + 1 \in Nat
  BY ONLY <1>1, <1>3 DEF NumbersAt
<1>5. /\ agentKid \in [Transfers -> ServedKids] /\ agentKid[t] \in ServedKids /\ t \in Transfers
      /\ agentKid' = [agentKid EXCEPT ![t].chunks = @ + 1]
  BY <1>1, <1>2 DEF FileTypes
<1>6. ServedAt(t, agentKid[t].state, agentKid[t].credit, agentKid[t].chunks + 1, agentKid[t].stage, agentKid[t].forward)
  BY ONLY <1>5, <1>4 DEF ServedAt, ServedKids
<1>7. ServedKept(t)
  BY ONLY <1>5, <1>4 DEF ServedKept, ServedKids
<1>8. framesToAgent' \in Seq(ToAgentFrames) /\ AgentLess("data", t) /\ \A x : x # t => AgentSame(x)
  BY <1>1, <1>2, AgentReading
<1>9. AgentLess("data", t)
  BY <1>8
<1>10. SentToAgent("data", t) > 0
  BY ONLY <1>9 DEF AgentLess
<1>11. PICK n \in {0, 1} : CoreWire(n, "window", t) /\ (n = 0 <=> parentDone)
  BY <1>1, <1>2, AgentWriting DEF AgentWrites, ToCoreFrames, FileFrame, FileFlags
<1>12. CoreAt(n, "window", t) /\ n \in {0, 1} /\ (n = 0 <=> parentDone)
  BY <1>11 DEF CoreWire, CoreAt
<1>13. FileTypes'
  BY ONLY <1>1, <1>2, <1>7, <1>8, <1>11 DEF FileTypes, CallSteps, AgentSame, CoreWire, ServedKept
<1>14. Only(t)
  BY ONLY <1>1, <1>2, <1>7, <1>8, <1>11 DEF FileTypes, Only, Unmoved, endVars, AgentSame, CoreWire, ServedKept
<1>15. Writing(t)' = Writing(t) /\ Writing(t) \in {0, 1}
  BY ONLY <1>3 DEF Writing
<1>16. Forwarding(t)' = Forwarding(t) /\ Forwarding(t) \in {0, 1}
  BY ONLY <1>3, <1>6 DEF Forwarding, ServedAt
<1>17. Reached(t) /\ EndsKnown(t) /\ (t \in Uploads => UploadSound(t)) /\ (t \in Downloads => DownloadSound(t))
  BY <1>1 DEF SoundTransfer
<1>18. Reached(t)'
  BY ONLY <1>1, <1>17, <1>3, <1>6, <1>9, <1>10, <1>12, <1>15, <1>16 DEF NumbersAt, ServedAt, AgentLess, CoreAt,
       Reached
<1>19. EndsKnown(t)'
  BY ONLY <1>1, <1>17, <1>3, <1>6, <1>9, <1>10, <1>12, <1>15, <1>16 DEF NumbersAt, ServedAt, AgentLess, CoreAt,
       EndsKnown, Reached
<1>20. t \in Uploads => UploadSound(t)'
  BY ONLY <1>1, <1>17, <1>3, <1>6, <1>9, <1>10, <1>12, <1>15, <1>16 DEF NumbersAt, ServedAt, AgentLess, CoreAt,
       UploadSound
<1>21. t \in Downloads => DownloadSound(t)'
  BY ONLY <1>1, <1>17, <1>3, <1>6, <1>9, <1>10, <1>12, <1>15, <1>16 DEF NumbersAt, ServedAt, AgentLess, CoreAt,
       DownloadSound, AgentWindow, DownloadChunks
<1>22. QED
  BY <1>1, <1>13, <1>14, <1>18, <1>19, <1>20, <1>21, OneTransfer DEF SoundTransfer, NumbersAt, ToCoreFrames,
       ToAgentFrames

\* ... or the upload fails.
LEMMA ChunkRefusedKeeps ==
    ASSUME FileInv, NEW t \in Transfers, NEW kept \in BOOLEAN, AgentTakes("data", t), agentKid' = [agentKid EXCEPT ![t] =
           ClosedKid(@, kept)], AgentWrites(FileFrame("error", t)), UNCHANGED destination
    PROVE  FileTypes' /\ FileSound'
<1>1. NumbersAt(t) /\ SoundTransfer(t) /\ FileTypes /\ FileFlags
  BY Given
<1>2. /\ ~agentDone
      /\ framesToAgent # <<>>
      /\ Head(framesToAgent) = FileFrame("data", t)
      /\ framesToAgent' = Tail(framesToAgent)
      /\ t \in Uploads /\ agentKid[t].state = "open"
      /\ agentKid' = [agentKid EXCEPT ![t] = [agentKid[t] EXCEPT !.state = "closed", !.stage = Unstaged(agentKid[t].stage, kept)]]
      /\ AgentWrites(FileFrame("error", t))
      /\ UNCHANGED <<parentDone, agentDone, op, kid, stream, commit, cancel, destination>>
  BY <1>1 DEF endVars, wires, FileFlags, FileTypes, AgentTakes, Valid, FileFrame, ClosedKid,
       StagedUpload, OpenedDownload, RefuseFile, StageChunk
<1>3. /\ ~agentDone
      /\ t \in Uploads /\ agentKid[t].state = "open"
      /\ UNCHANGED <<parentDone, agentDone>>
      /\ op'[t] = op[t] /\ commit'[t] = commit[t] /\ cancel'[t] = cancel[t] /\ kid'[t] = kid[t] /\ stream'[t] = stream[t]
  BY <1>1, <1>2 DEF FileTypes
<1>4. /\ agentKid \in [Transfers -> ServedKids] /\ agentKid[t] \in ServedKids /\ t \in Transfers
      /\ agentKid' = [agentKid EXCEPT ![t] = [agentKid[t] EXCEPT !.state = "closed", !.stage = Unstaged(agentKid[t].stage, kept)]]
  BY <1>1, <1>2 DEF FileTypes
<1>5. ServedAt(t, "closed", agentKid[t].credit, agentKid[t].chunks, Unstaged(agentKid[t].stage, kept), agentKid[t].forward)
  BY ONLY <1>4 DEF ServedAt, ServedKids, Unstaged
<1>6. ServedKept(t)
  BY ONLY <1>4 DEF ServedKept, ServedKids, Unstaged
<1>7. framesToAgent' \in Seq(ToAgentFrames) /\ AgentLess("data", t) /\ \A x : x # t => AgentSame(x)
  BY <1>1, <1>2, AgentReading
<1>8. AgentLess("data", t)
  BY <1>7
<1>9. SentToAgent("data", t) > 0
  BY ONLY <1>8 DEF AgentLess
<1>10. PICK n \in {0, 1} : CoreWire(n, "error", t) /\ (n = 0 <=> parentDone)
  BY <1>1, <1>2, AgentWriting DEF AgentWrites, ToCoreFrames, FileFrame, FileFlags
<1>11. CoreAt(n, "error", t) /\ n \in {0, 1} /\ (n = 0 <=> parentDone)
  BY <1>10 DEF CoreWire, CoreAt
<1>12. FileTypes'
  BY ONLY <1>1, <1>2, <1>6, <1>7, <1>10 DEF FileTypes, CallSteps, AgentSame, CoreWire, ServedKept
<1>13. Only(t)
  BY ONLY <1>1, <1>2, <1>6, <1>7, <1>10 DEF FileTypes, Only, Unmoved, endVars, AgentSame, CoreWire, ServedKept
<1>14. Writing(t)' = Writing(t) /\ Writing(t) \in {0, 1}
  BY ONLY <1>3 DEF Writing
<1>15. Forwarding(t)' = Forwarding(t) /\ Forwarding(t) \in {0, 1}
  BY ONLY <1>3, <1>5 DEF Forwarding, ServedAt
<1>16. Reached(t) /\ EndsKnown(t) /\ (t \in Uploads => UploadSound(t)) /\ (t \in Downloads => DownloadSound(t))
  BY <1>1 DEF SoundTransfer
<1>17. Reached(t)'
  BY ONLY <1>1, <1>16, <1>3, <1>5, <1>8, <1>9, <1>11, <1>14, <1>15 DEF NumbersAt, ServedAt, AgentLess, CoreAt,
       Reached
<1>18. EndsKnown(t)'
  BY ONLY <1>1, <1>16, <1>3, <1>5, <1>8, <1>9, <1>11, <1>14, <1>15 DEF NumbersAt, ServedAt, AgentLess, CoreAt,
       EndsKnown, Reached, Unstaged
<1>19. t \in Uploads => UploadSound(t)'
  BY ONLY <1>1, <1>16, <1>3, <1>5, <1>8, <1>9, <1>11, <1>14, <1>15 DEF NumbersAt, ServedAt, AgentLess, CoreAt,
       UploadSound
<1>20. t \in Downloads => DownloadSound(t)'
  BY ONLY <1>1, <1>16, <1>3, <1>5, <1>8, <1>9, <1>11, <1>14, <1>15 DEF NumbersAt, ServedAt, AgentLess, CoreAt,
       DownloadSound, AgentWindow, DownloadChunks
<1>21. QED
  BY <1>1, <1>12, <1>13, <1>17, <1>18, <1>19, <1>20, OneTransfer DEF SoundTransfer, NumbersAt, ToCoreFrames,
       ToAgentFrames

\* The agent gets credit for a download.
LEMMA CreditGivenKeeps ==
    ASSUME FileInv, NEW t \in Transfers, AgentTakes("window", t), agentKid' = [agentKid EXCEPT ![t].credit = @
           + 1], UNCHANGED toCore, UNCHANGED destination
    PROVE  FileTypes' /\ FileSound'
<1>1. NumbersAt(t) /\ SoundTransfer(t) /\ FileTypes /\ FileFlags
  BY Given
<1>2. /\ ~agentDone
      /\ framesToAgent # <<>>
      /\ Head(framesToAgent) = FileFrame("window", t)
      /\ framesToAgent' = Tail(framesToAgent)
      /\ t \in Downloads /\ agentKid[t].state = "open"
      /\ agentKid' = [agentKid EXCEPT ![t].credit = @ + 1]
      /\ UNCHANGED <<parentDone, agentDone, toCore, op, kid, stream, commit, cancel, destination>>
  BY <1>1 DEF endVars, wires, FileFlags, FileTypes, AgentTakes, Valid, FileFrame, ClosedKid, Unstaged,
       StagedUpload, OpenedDownload, RefuseFile, StageChunk
<1>3. /\ ~agentDone
      /\ t \in Downloads /\ agentKid[t].state = "open"
      /\ UNCHANGED <<parentDone, agentDone>>
      /\ op'[t] = op[t] /\ commit'[t] = commit[t] /\ cancel'[t] = cancel[t] /\ kid'[t] = kid[t] /\ stream'[t] = stream[t]
  BY <1>1, <1>2 DEF FileTypes
<1>4. agentKid[t].credit + 1 \in Nat
  BY ONLY <1>1, <1>3 DEF NumbersAt
<1>5. /\ agentKid \in [Transfers -> ServedKids] /\ agentKid[t] \in ServedKids /\ t \in Transfers
      /\ agentKid' = [agentKid EXCEPT ![t].credit = @ + 1]
  BY <1>1, <1>2 DEF FileTypes
<1>6. ServedAt(t, agentKid[t].state, agentKid[t].credit + 1, agentKid[t].chunks, agentKid[t].stage, agentKid[t].forward)
  BY ONLY <1>5, <1>4 DEF ServedAt, ServedKids
<1>7. ServedKept(t)
  BY ONLY <1>5, <1>4 DEF ServedKept, ServedKids
<1>8. framesToAgent' \in Seq(ToAgentFrames) /\ AgentLess("window", t) /\ \A x : x # t => AgentSame(x)
  BY <1>1, <1>2, AgentReading
<1>9. AgentLess("window", t)
  BY <1>8
<1>10. SentToAgent("window", t) > 0
  BY ONLY <1>9 DEF AgentLess
<1>11. toCore' \in Seq(ToCoreFrames) /\ \A x : CoreSame(x)
  BY <1>1, <1>2, QuietWires
<1>12. CoreSame(t)
  BY <1>11
<1>13. FileTypes'
  BY ONLY <1>1, <1>2, <1>7, <1>8, <1>11 DEF FileTypes, CallSteps, AgentSame, CoreSame, ServedKept
<1>14. Only(t)
  BY ONLY <1>1, <1>2, <1>7, <1>8, <1>11 DEF FileTypes, Only, Unmoved, endVars, AgentSame, CoreSame, ServedKept
<1>15. Writing(t)' = Writing(t) /\ Writing(t) \in {0, 1}
  BY ONLY <1>3 DEF Writing
<1>16. Forwarding(t)' = Forwarding(t) /\ Forwarding(t) \in {0, 1}
  BY ONLY <1>3, <1>6 DEF Forwarding, ServedAt
<1>17. AgentWindow(t)' = AgentWindow(t) /\ DownloadChunks(t)' = DownloadChunks(t)
  BY ONLY <1>1, <1>3, <1>6, <1>9, <1>10, <1>12, <1>15, <1>16 DEF NumbersAt, ServedAt, AgentLess, CoreSame,
       AgentWindow, DownloadChunks
<1>18. Reached(t) /\ EndsKnown(t) /\ (t \in Uploads => UploadSound(t)) /\ (t \in Downloads => DownloadSound(t))
  BY <1>1 DEF SoundTransfer
<1>19. Reached(t)'
  BY ONLY <1>1, <1>18, <1>3, <1>6, <1>9, <1>10, <1>12, <1>15, <1>16, <1>17 DEF NumbersAt, ServedAt, AgentLess,
       CoreSame, Reached
<1>20. EndsKnown(t)'
  BY ONLY <1>1, <1>18, <1>3, <1>6, <1>9, <1>10, <1>12, <1>15, <1>16, <1>17 DEF NumbersAt, ServedAt, AgentLess,
       CoreSame, EndsKnown, Reached
<1>21. t \in Uploads => UploadSound(t)'
  BY ONLY <1>1, <1>18, <1>3, <1>6, <1>9, <1>10, <1>12, <1>15, <1>16, <1>17 DEF NumbersAt, ServedAt, AgentLess,
       CoreSame, UploadSound
<1>22. t \in Downloads => DownloadSound(t)'
  BY ONLY <1>1, <1>18, <1>3, <1>6, <1>9, <1>10, <1>12, <1>15, <1>16, <1>17 DEF NumbersAt, ServedAt, AgentLess,
       CoreSame, DownloadSound
<1>23. QED
  BY <1>1, <1>13, <1>14, <1>19, <1>20, <1>21, <1>22, OneTransfer DEF SoundTransfer, NumbersAt, ToCoreFrames,
       ToAgentFrames

\* A close publishes the upload ...
LEMMA UploadPublishedKeeps ==
    ASSUME FileInv, NEW t \in Transfers, NEW kept \in BOOLEAN, NEW reply \in {"peer_close", "error"}, AgentTakes("close", t), agentKid' = [agentKid EXCEPT ![t] =
           ClosedKid(@, kept)], t \in Uploads, AgentWrites(FileFrame(reply, t)), destination' = t
    PROVE  FileTypes' /\ FileSound'
<1>1. NumbersAt(t) /\ SoundTransfer(t) /\ FileTypes /\ FileFlags
  BY Given
<1>2. /\ ~agentDone
      /\ framesToAgent # <<>>
      /\ Head(framesToAgent) = FileFrame("close", t)
      /\ framesToAgent' = Tail(framesToAgent)
      /\ agentKid[t].state = "open"
      /\ agentKid' = [agentKid EXCEPT ![t] = [agentKid[t] EXCEPT !.state = "closed", !.stage = Unstaged(agentKid[t].stage, kept)]]
      /\ AgentWrites(FileFrame(reply, t))
      /\ destination' = t /\ t \in Uploads
      /\ UNCHANGED <<parentDone, agentDone, op, kid, stream, commit, cancel>>
  BY <1>1 DEF endVars, wires, FileFlags, FileTypes, AgentTakes, Valid, FileFrame, ClosedKid,
       StagedUpload, OpenedDownload, RefuseFile, StageChunk
<1>3. /\ ~agentDone
      /\ agentKid[t].state = "open"
      /\ UNCHANGED <<parentDone, agentDone>>
      /\ op'[t] = op[t] /\ commit'[t] = commit[t] /\ cancel'[t] = cancel[t] /\ kid'[t] = kid[t] /\ stream'[t] = stream[t]
  BY <1>1, <1>2 DEF FileTypes
<1>4. /\ agentKid \in [Transfers -> ServedKids] /\ agentKid[t] \in ServedKids /\ t \in Transfers
      /\ agentKid' = [agentKid EXCEPT ![t] = [agentKid[t] EXCEPT !.state = "closed", !.stage = Unstaged(agentKid[t].stage, kept)]]
  BY <1>1, <1>2 DEF FileTypes
<1>5. ServedAt(t, "closed", agentKid[t].credit, agentKid[t].chunks, Unstaged(agentKid[t].stage, kept), agentKid[t].forward)
  BY ONLY <1>4 DEF ServedAt, ServedKids, Unstaged
<1>6. ServedKept(t)
  BY ONLY <1>4 DEF ServedKept, ServedKids, Unstaged
<1>7. framesToAgent' \in Seq(ToAgentFrames) /\ AgentLess("close", t) /\ \A x : x # t => AgentSame(x)
  BY <1>1, <1>2, AgentReading
<1>8. AgentLess("close", t)
  BY <1>7
<1>9. SentToAgent("close", t) > 0
  BY ONLY <1>8 DEF AgentLess
<1>10. PICK n \in {0, 1} : CoreWire(n, reply, t) /\ (n = 0 <=> parentDone)
  BY <1>1, <1>2, AgentWriting DEF AgentWrites, ToCoreFrames, FileFrame, FileFlags
<1>11. CoreAt(n, reply, t) /\ n \in {0, 1} /\ (n = 0 <=> parentDone)
  BY <1>10 DEF CoreWire, CoreAt
<1>12. FileTypes'
  BY ONLY <1>1, <1>2, <1>6, <1>7, <1>10 DEF FileTypes, CallSteps, AgentSame, CoreWire, ServedKept, Transfers
<1>13. Only(t)
  BY ONLY <1>1, <1>2, <1>6, <1>7, <1>10 DEF FileTypes, Only, Unmoved, endVars, AgentSame, CoreWire, ServedKept
<1>14. Writing(t)' = Writing(t) /\ Writing(t) \in {0, 1}
  BY ONLY <1>3 DEF Writing
<1>15. Forwarding(t)' = Forwarding(t) /\ Forwarding(t) \in {0, 1}
  BY ONLY <1>3, <1>5 DEF Forwarding, ServedAt
<1>16. Reached(t) /\ EndsKnown(t) /\ (t \in Uploads => UploadSound(t)) /\ (t \in Downloads => DownloadSound(t))
  BY <1>1 DEF SoundTransfer
<1>17. Reached(t)'
  BY ONLY <1>1, <1>16, <1>3, <1>5, <1>8, <1>9, <1>11, <1>14, <1>15 DEF NumbersAt, ServedAt, AgentLess, CoreAt,
       Reached
<1>18. EndsKnown(t)'
  BY ONLY <1>1, <1>16, <1>3, <1>5, <1>8, <1>9, <1>11, <1>14, <1>15 DEF NumbersAt, ServedAt, AgentLess, CoreAt,
       EndsKnown, Reached, Unstaged
<1>19. t \in Uploads => UploadSound(t)'
  BY ONLY <1>1, <1>16, <1>3, <1>5, <1>8, <1>9, <1>11, <1>14, <1>15 DEF NumbersAt, ServedAt, AgentLess, CoreAt,
       UploadSound
<1>20. t \in Downloads => DownloadSound(t)'
  BY ONLY <1>1, <1>16, <1>3, <1>5, <1>8, <1>9, <1>11, <1>14, <1>15 DEF NumbersAt, ServedAt, AgentLess, CoreAt,
       DownloadSound, AgentWindow, DownloadChunks
<1>21. QED
  BY <1>1, <1>12, <1>13, <1>17, <1>18, <1>19, <1>20, OneTransfer DEF SoundTransfer, NumbersAt, ToCoreFrames,
       ToAgentFrames

\* ... or fails, ...
LEMMA UploadFailsKeeps ==
    ASSUME FileInv, NEW t \in Transfers, NEW kept \in BOOLEAN, AgentTakes("close", t), agentKid' = [agentKid EXCEPT ![t] =
           ClosedKid(@, kept)], AgentWrites(FileFrame("error", t)), UNCHANGED destination
    PROVE  FileTypes' /\ FileSound'
<1>1. NumbersAt(t) /\ SoundTransfer(t) /\ FileTypes /\ FileFlags
  BY Given
<1>2. /\ ~agentDone
      /\ framesToAgent # <<>>
      /\ Head(framesToAgent) = FileFrame("close", t)
      /\ framesToAgent' = Tail(framesToAgent)
      /\ agentKid[t].state = "open"
      /\ agentKid' = [agentKid EXCEPT ![t] = [agentKid[t] EXCEPT !.state = "closed", !.stage = Unstaged(agentKid[t].stage, kept)]]
      /\ AgentWrites(FileFrame("error", t))
      /\ UNCHANGED <<parentDone, agentDone, op, kid, stream, commit, cancel, destination>>
  BY <1>1 DEF endVars, wires, FileFlags, FileTypes, AgentTakes, Valid, FileFrame, ClosedKid,
       StagedUpload, OpenedDownload, RefuseFile, StageChunk
<1>3. /\ ~agentDone
      /\ agentKid[t].state = "open"
      /\ UNCHANGED <<parentDone, agentDone>>
      /\ op'[t] = op[t] /\ commit'[t] = commit[t] /\ cancel'[t] = cancel[t] /\ kid'[t] = kid[t] /\ stream'[t] = stream[t]
  BY <1>1, <1>2 DEF FileTypes
<1>4. /\ agentKid \in [Transfers -> ServedKids] /\ agentKid[t] \in ServedKids /\ t \in Transfers
      /\ agentKid' = [agentKid EXCEPT ![t] = [agentKid[t] EXCEPT !.state = "closed", !.stage = Unstaged(agentKid[t].stage, kept)]]
  BY <1>1, <1>2 DEF FileTypes
<1>5. ServedAt(t, "closed", agentKid[t].credit, agentKid[t].chunks, Unstaged(agentKid[t].stage, kept), agentKid[t].forward)
  BY ONLY <1>4 DEF ServedAt, ServedKids, Unstaged
<1>6. ServedKept(t)
  BY ONLY <1>4 DEF ServedKept, ServedKids, Unstaged
<1>7. framesToAgent' \in Seq(ToAgentFrames) /\ AgentLess("close", t) /\ \A x : x # t => AgentSame(x)
  BY <1>1, <1>2, AgentReading
<1>8. AgentLess("close", t)
  BY <1>7
<1>9. SentToAgent("close", t) > 0
  BY ONLY <1>8 DEF AgentLess
<1>10. PICK n \in {0, 1} : CoreWire(n, "error", t) /\ (n = 0 <=> parentDone)
  BY <1>1, <1>2, AgentWriting DEF AgentWrites, ToCoreFrames, FileFrame, FileFlags
<1>11. CoreAt(n, "error", t) /\ n \in {0, 1} /\ (n = 0 <=> parentDone)
  BY <1>10 DEF CoreWire, CoreAt
<1>12. FileTypes'
  BY ONLY <1>1, <1>2, <1>6, <1>7, <1>10 DEF FileTypes, CallSteps, AgentSame, CoreWire, ServedKept
<1>13. Only(t)
  BY ONLY <1>1, <1>2, <1>6, <1>7, <1>10 DEF FileTypes, Only, Unmoved, endVars, AgentSame, CoreWire, ServedKept
<1>14. Writing(t)' = Writing(t) /\ Writing(t) \in {0, 1}
  BY ONLY <1>3 DEF Writing
<1>15. Forwarding(t)' = Forwarding(t) /\ Forwarding(t) \in {0, 1}
  BY ONLY <1>3, <1>5 DEF Forwarding, ServedAt
<1>16. Reached(t) /\ EndsKnown(t) /\ (t \in Uploads => UploadSound(t)) /\ (t \in Downloads => DownloadSound(t))
  BY <1>1 DEF SoundTransfer
<1>17. Reached(t)'
  BY ONLY <1>1, <1>16, <1>3, <1>5, <1>8, <1>9, <1>11, <1>14, <1>15 DEF NumbersAt, ServedAt, AgentLess, CoreAt,
       Reached
<1>18. EndsKnown(t)'
  BY ONLY <1>1, <1>16, <1>3, <1>5, <1>8, <1>9, <1>11, <1>14, <1>15 DEF NumbersAt, ServedAt, AgentLess, CoreAt,
       EndsKnown, Reached, Unstaged
<1>19. t \in Uploads => UploadSound(t)'
  BY ONLY <1>1, <1>16, <1>3, <1>5, <1>8, <1>9, <1>11, <1>14, <1>15 DEF NumbersAt, ServedAt, AgentLess, CoreAt,
       UploadSound
<1>20. t \in Downloads => DownloadSound(t)'
  BY ONLY <1>1, <1>16, <1>3, <1>5, <1>8, <1>9, <1>11, <1>14, <1>15 DEF NumbersAt, ServedAt, AgentLess, CoreAt,
       DownloadSound, AgentWindow, DownloadChunks
<1>21. QED
  BY <1>1, <1>12, <1>13, <1>17, <1>18, <1>19, <1>20, OneTransfer DEF SoundTransfer, NumbersAt, ToCoreFrames,
       ToAgentFrames

\* ... or ends a download early, ...
LEMMA DownloadStoppedKeeps ==
    ASSUME FileInv, NEW t \in Transfers, NEW kept \in BOOLEAN, AgentTakes("close", t), agentKid' = [agentKid EXCEPT ![t] =
           ClosedKid(@, kept)], AgentWrites(FileFrame("peer_close", t)), UNCHANGED destination
    PROVE  FileTypes' /\ FileSound'
<1>1. NumbersAt(t) /\ SoundTransfer(t) /\ FileTypes /\ FileFlags
  BY Given
<1>2. /\ ~agentDone
      /\ framesToAgent # <<>>
      /\ Head(framesToAgent) = FileFrame("close", t)
      /\ framesToAgent' = Tail(framesToAgent)
      /\ agentKid[t].state = "open"
      /\ agentKid' = [agentKid EXCEPT ![t] = [agentKid[t] EXCEPT !.state = "closed", !.stage = Unstaged(agentKid[t].stage, kept)]]
      /\ AgentWrites(FileFrame("peer_close", t))
      /\ UNCHANGED <<parentDone, agentDone, op, kid, stream, commit, cancel, destination>>
  BY <1>1 DEF endVars, wires, FileFlags, FileTypes, AgentTakes, Valid, FileFrame, ClosedKid,
       StagedUpload, OpenedDownload, RefuseFile, StageChunk
<1>3. /\ ~agentDone
      /\ agentKid[t].state = "open"
      /\ UNCHANGED <<parentDone, agentDone>>
      /\ op'[t] = op[t] /\ commit'[t] = commit[t] /\ cancel'[t] = cancel[t] /\ kid'[t] = kid[t] /\ stream'[t] = stream[t]
  BY <1>1, <1>2 DEF FileTypes
<1>4. /\ agentKid \in [Transfers -> ServedKids] /\ agentKid[t] \in ServedKids /\ t \in Transfers
      /\ agentKid' = [agentKid EXCEPT ![t] = [agentKid[t] EXCEPT !.state = "closed", !.stage = Unstaged(agentKid[t].stage, kept)]]
  BY <1>1, <1>2 DEF FileTypes
<1>5. ServedAt(t, "closed", agentKid[t].credit, agentKid[t].chunks, Unstaged(agentKid[t].stage, kept), agentKid[t].forward)
  BY ONLY <1>4 DEF ServedAt, ServedKids, Unstaged
<1>6. ServedKept(t)
  BY ONLY <1>4 DEF ServedKept, ServedKids, Unstaged
<1>7. framesToAgent' \in Seq(ToAgentFrames) /\ AgentLess("close", t) /\ \A x : x # t => AgentSame(x)
  BY <1>1, <1>2, AgentReading
<1>8. AgentLess("close", t)
  BY <1>7
<1>9. SentToAgent("close", t) > 0
  BY ONLY <1>8 DEF AgentLess
<1>10. PICK n \in {0, 1} : CoreWire(n, "peer_close", t) /\ (n = 0 <=> parentDone)
  BY <1>1, <1>2, AgentWriting DEF AgentWrites, ToCoreFrames, FileFrame, FileFlags
<1>11. CoreAt(n, "peer_close", t) /\ n \in {0, 1} /\ (n = 0 <=> parentDone)
  BY <1>10 DEF CoreWire, CoreAt
<1>12. FileTypes'
  BY ONLY <1>1, <1>2, <1>6, <1>7, <1>10 DEF FileTypes, CallSteps, AgentSame, CoreWire, ServedKept
<1>13. Only(t)
  BY ONLY <1>1, <1>2, <1>6, <1>7, <1>10 DEF FileTypes, Only, Unmoved, endVars, AgentSame, CoreWire, ServedKept
<1>14. Writing(t)' = Writing(t) /\ Writing(t) \in {0, 1}
  BY ONLY <1>3 DEF Writing
<1>15. Forwarding(t)' = Forwarding(t) /\ Forwarding(t) \in {0, 1}
  BY ONLY <1>3, <1>5 DEF Forwarding, ServedAt
<1>16. Reached(t) /\ EndsKnown(t) /\ (t \in Uploads => UploadSound(t)) /\ (t \in Downloads => DownloadSound(t))
  BY <1>1 DEF SoundTransfer
<1>17. Reached(t)'
  BY ONLY <1>1, <1>16, <1>3, <1>5, <1>8, <1>9, <1>11, <1>14, <1>15 DEF NumbersAt, ServedAt, AgentLess, CoreAt,
       Reached
<1>18. EndsKnown(t)'
  BY ONLY <1>1, <1>16, <1>3, <1>5, <1>8, <1>9, <1>11, <1>14, <1>15 DEF NumbersAt, ServedAt, AgentLess, CoreAt,
       EndsKnown, Reached, Unstaged
<1>19. t \in Uploads => UploadSound(t)'
  BY ONLY <1>1, <1>16, <1>3, <1>5, <1>8, <1>9, <1>11, <1>14, <1>15 DEF NumbersAt, ServedAt, AgentLess, CoreAt,
       UploadSound
<1>20. t \in Downloads => DownloadSound(t)'
  BY ONLY <1>1, <1>16, <1>3, <1>5, <1>8, <1>9, <1>11, <1>14, <1>15 DEF NumbersAt, ServedAt, AgentLess, CoreAt,
       DownloadSound, AgentWindow, DownloadChunks
<1>21. QED
  BY <1>1, <1>12, <1>13, <1>17, <1>18, <1>19, <1>20, OneTransfer DEF SoundTransfer, NumbersAt, ToCoreFrames,
       ToAgentFrames

\* ... or acknowledges its end.
LEMMA DownloadOverKeeps ==
    ASSUME FileInv, NEW t \in Transfers, NEW kept \in BOOLEAN, AgentTakes("close", t), agentKid' = [agentKid EXCEPT ![t] =
           ClosedKid(@, kept)], UNCHANGED toCore, UNCHANGED destination
    PROVE  FileTypes' /\ FileSound'
<1>1. NumbersAt(t) /\ SoundTransfer(t) /\ FileTypes /\ FileFlags
  BY Given
<1>2. /\ ~agentDone
      /\ framesToAgent # <<>>
      /\ Head(framesToAgent) = FileFrame("close", t)
      /\ framesToAgent' = Tail(framesToAgent)
      /\ agentKid[t].state = "open"
      /\ agentKid' = [agentKid EXCEPT ![t] = [agentKid[t] EXCEPT !.state = "closed", !.stage = Unstaged(agentKid[t].stage, kept)]]
      /\ UNCHANGED <<parentDone, agentDone, toCore, op, kid, stream, commit, cancel, destination>>
  BY <1>1 DEF endVars, wires, FileFlags, FileTypes, AgentTakes, Valid, FileFrame, ClosedKid,
       StagedUpload, OpenedDownload, RefuseFile, StageChunk
<1>3. /\ ~agentDone
      /\ agentKid[t].state = "open"
      /\ UNCHANGED <<parentDone, agentDone>>
      /\ op'[t] = op[t] /\ commit'[t] = commit[t] /\ cancel'[t] = cancel[t] /\ kid'[t] = kid[t] /\ stream'[t] = stream[t]
  BY <1>1, <1>2 DEF FileTypes
<1>4. /\ agentKid \in [Transfers -> ServedKids] /\ agentKid[t] \in ServedKids /\ t \in Transfers
      /\ agentKid' = [agentKid EXCEPT ![t] = [agentKid[t] EXCEPT !.state = "closed", !.stage = Unstaged(agentKid[t].stage, kept)]]
  BY <1>1, <1>2 DEF FileTypes
<1>5. ServedAt(t, "closed", agentKid[t].credit, agentKid[t].chunks, Unstaged(agentKid[t].stage, kept), agentKid[t].forward)
  BY ONLY <1>4 DEF ServedAt, ServedKids, Unstaged
<1>6. ServedKept(t)
  BY ONLY <1>4 DEF ServedKept, ServedKids, Unstaged
<1>7. framesToAgent' \in Seq(ToAgentFrames) /\ AgentLess("close", t) /\ \A x : x # t => AgentSame(x)
  BY <1>1, <1>2, AgentReading
<1>8. AgentLess("close", t)
  BY <1>7
<1>9. SentToAgent("close", t) > 0
  BY ONLY <1>8 DEF AgentLess
<1>10. toCore' \in Seq(ToCoreFrames) /\ \A x : CoreSame(x)
  BY <1>1, <1>2, QuietWires
<1>11. CoreSame(t)
  BY <1>10
<1>12. FileTypes'
  BY ONLY <1>1, <1>2, <1>6, <1>7, <1>10 DEF FileTypes, CallSteps, AgentSame, CoreSame, ServedKept
<1>13. Only(t)
  BY ONLY <1>1, <1>2, <1>6, <1>7, <1>10 DEF FileTypes, Only, Unmoved, endVars, AgentSame, CoreSame, ServedKept
<1>14. Writing(t)' = Writing(t) /\ Writing(t) \in {0, 1}
  BY ONLY <1>3 DEF Writing
<1>15. Forwarding(t)' = Forwarding(t) /\ Forwarding(t) \in {0, 1}
  BY ONLY <1>3, <1>5 DEF Forwarding, ServedAt
<1>16. Reached(t) /\ EndsKnown(t) /\ (t \in Uploads => UploadSound(t)) /\ (t \in Downloads => DownloadSound(t))
  BY <1>1 DEF SoundTransfer
<1>17. Reached(t)'
  BY ONLY <1>1, <1>16, <1>3, <1>5, <1>8, <1>9, <1>11, <1>14, <1>15 DEF NumbersAt, ServedAt, AgentLess, CoreSame,
       Reached
<1>18. EndsKnown(t)'
  BY ONLY <1>1, <1>16, <1>3, <1>5, <1>8, <1>9, <1>11, <1>14, <1>15 DEF NumbersAt, ServedAt, AgentLess, CoreSame,
       EndsKnown, Reached, Unstaged
<1>19. t \in Uploads => UploadSound(t)'
  BY ONLY <1>1, <1>16, <1>3, <1>5, <1>8, <1>9, <1>11, <1>14, <1>15 DEF NumbersAt, ServedAt, AgentLess, CoreSame,
       UploadSound
<1>20. t \in Downloads => DownloadSound(t)'
  BY ONLY <1>1, <1>16, <1>3, <1>5, <1>8, <1>9, <1>11, <1>14, <1>15 DEF NumbersAt, ServedAt, AgentLess, CoreSame,
       DownloadSound, AgentWindow, DownloadChunks
<1>21. QED
  BY <1>1, <1>12, <1>13, <1>17, <1>18, <1>19, <1>20, OneTransfer DEF SoundTransfer, NumbersAt, ToCoreFrames,
       ToAgentFrames

\* The Core cancels a transfer.
LEMMA FileCancelledKeeps ==
    ASSUME FileInv, NEW t \in Transfers, NEW kept \in BOOLEAN, AgentTakes("error", t), agentKid' = [agentKid EXCEPT ![t] =
           ClosedKid(@, kept)], AgentWrites(FileFrame("peer_close", t)), UNCHANGED destination
    PROVE  FileTypes' /\ FileSound'
<1>1. NumbersAt(t) /\ SoundTransfer(t) /\ FileTypes /\ FileFlags
  BY Given
<1>2. /\ ~agentDone
      /\ framesToAgent # <<>>
      /\ Head(framesToAgent) = FileFrame("error", t)
      /\ framesToAgent' = Tail(framesToAgent)
      /\ agentKid[t].state = "open"
      /\ agentKid' = [agentKid EXCEPT ![t] = [agentKid[t] EXCEPT !.state = "closed", !.stage = Unstaged(agentKid[t].stage, kept)]]
      /\ AgentWrites(FileFrame("peer_close", t))
      /\ UNCHANGED <<parentDone, agentDone, op, kid, stream, commit, cancel, destination>>
  BY <1>1 DEF endVars, wires, FileFlags, FileTypes, AgentTakes, Valid, FileFrame, ClosedKid,
       StagedUpload, OpenedDownload, RefuseFile, StageChunk
<1>3. /\ ~agentDone
      /\ agentKid[t].state = "open"
      /\ UNCHANGED <<parentDone, agentDone>>
      /\ op'[t] = op[t] /\ commit'[t] = commit[t] /\ cancel'[t] = cancel[t] /\ kid'[t] = kid[t] /\ stream'[t] = stream[t]
  BY <1>1, <1>2 DEF FileTypes
<1>4. /\ agentKid \in [Transfers -> ServedKids] /\ agentKid[t] \in ServedKids /\ t \in Transfers
      /\ agentKid' = [agentKid EXCEPT ![t] = [agentKid[t] EXCEPT !.state = "closed", !.stage = Unstaged(agentKid[t].stage, kept)]]
  BY <1>1, <1>2 DEF FileTypes
<1>5. ServedAt(t, "closed", agentKid[t].credit, agentKid[t].chunks, Unstaged(agentKid[t].stage, kept), agentKid[t].forward)
  BY ONLY <1>4 DEF ServedAt, ServedKids, Unstaged
<1>6. ServedKept(t)
  BY ONLY <1>4 DEF ServedKept, ServedKids, Unstaged
<1>7. framesToAgent' \in Seq(ToAgentFrames) /\ AgentLess("error", t) /\ \A x : x # t => AgentSame(x)
  BY <1>1, <1>2, AgentReading
<1>8. AgentLess("error", t)
  BY <1>7
<1>9. SentToAgent("error", t) > 0
  BY ONLY <1>8 DEF AgentLess
<1>10. PICK n \in {0, 1} : CoreWire(n, "peer_close", t) /\ (n = 0 <=> parentDone)
  BY <1>1, <1>2, AgentWriting DEF AgentWrites, ToCoreFrames, FileFrame, FileFlags
<1>11. CoreAt(n, "peer_close", t) /\ n \in {0, 1} /\ (n = 0 <=> parentDone)
  BY <1>10 DEF CoreWire, CoreAt
<1>12. FileTypes'
  BY ONLY <1>1, <1>2, <1>6, <1>7, <1>10 DEF FileTypes, CallSteps, AgentSame, CoreWire, ServedKept
<1>13. Only(t)
  BY ONLY <1>1, <1>2, <1>6, <1>7, <1>10 DEF FileTypes, Only, Unmoved, endVars, AgentSame, CoreWire, ServedKept
<1>14. Writing(t)' = Writing(t) /\ Writing(t) \in {0, 1}
  BY ONLY <1>3 DEF Writing
<1>15. Forwarding(t)' = Forwarding(t) /\ Forwarding(t) \in {0, 1}
  BY ONLY <1>3, <1>5 DEF Forwarding, ServedAt
<1>16. Reached(t) /\ EndsKnown(t) /\ (t \in Uploads => UploadSound(t)) /\ (t \in Downloads => DownloadSound(t))
  BY <1>1 DEF SoundTransfer
<1>17. Reached(t)'
  BY ONLY <1>1, <1>16, <1>3, <1>5, <1>8, <1>9, <1>11, <1>14, <1>15 DEF NumbersAt, ServedAt, AgentLess, CoreAt,
       Reached
<1>18. EndsKnown(t)'
  BY ONLY <1>1, <1>16, <1>3, <1>5, <1>8, <1>9, <1>11, <1>14, <1>15 DEF NumbersAt, ServedAt, AgentLess, CoreAt,
       EndsKnown, Reached, Unstaged
<1>19. t \in Uploads => UploadSound(t)'
  BY ONLY <1>1, <1>16, <1>3, <1>5, <1>8, <1>9, <1>11, <1>14, <1>15 DEF NumbersAt, ServedAt, AgentLess, CoreAt,
       UploadSound
<1>20. t \in Downloads => DownloadSound(t)'
  BY ONLY <1>1, <1>16, <1>3, <1>5, <1>8, <1>9, <1>11, <1>14, <1>15 DEF NumbersAt, ServedAt, AgentLess, CoreAt,
       DownloadSound, AgentWindow, DownloadChunks
<1>21. QED
  BY <1>1, <1>12, <1>13, <1>17, <1>18, <1>19, <1>20, OneTransfer DEF SoundTransfer, NumbersAt, ToCoreFrames,
       ToAgentFrames

\* A forwarder stops, ...
LEMMA ReadStopsKeeps ==
    ASSUME FileInv, NEW t \in Transfers, ForwardRead(t), agentKid[t].state = "closed"
    PROVE  FileTypes' /\ FileSound'
<1>1. NumbersAt(t) /\ SoundTransfer(t) /\ FileTypes /\ FileFlags
  BY Given
<1>2. /\ agentKid[t].forward = "ready"
      /\ agentKid[t].state = "closed"
      /\ agentKid' = [agentKid EXCEPT ![t] = [agentKid[t] EXCEPT !.forward = "returned"]]
      /\ UNCHANGED <<parentDone, agentDone, framesToAgent, toCore, op, kid, stream, commit, cancel, destination>>
  BY <1>1 DEF endVars, wires, FileFlags, FileTypes, ForwardRead, ClosedKid, Unstaged
<1>3. /\ agentKid[t].forward = "ready"
      /\ agentKid[t].state = "closed"
      /\ UNCHANGED <<parentDone, agentDone>>
      /\ op'[t] = op[t] /\ commit'[t] = commit[t] /\ cancel'[t] = cancel[t] /\ kid'[t] = kid[t] /\ stream'[t] = stream[t]
  BY <1>1, <1>2 DEF FileTypes
<1>4. /\ agentKid \in [Transfers -> ServedKids] /\ agentKid[t] \in ServedKids /\ t \in Transfers
      /\ agentKid' = [agentKid EXCEPT ![t] = [agentKid[t] EXCEPT !.forward = "returned"]]
  BY <1>1, <1>2 DEF FileTypes
<1>5. ServedAt(t, agentKid[t].state, agentKid[t].credit, agentKid[t].chunks, agentKid[t].stage, "returned")
  BY ONLY <1>4 DEF ServedAt, ServedKids
<1>6. ServedKept(t)
  BY ONLY <1>4 DEF ServedKept, ServedKids
<1>7. framesToAgent' \in Seq(ToAgentFrames) /\ \A x : AgentSame(x)
  BY <1>1, <1>2, QuietWires
<1>8. AgentSame(t)
  BY <1>7
<1>9. toCore' \in Seq(ToCoreFrames) /\ \A x : CoreSame(x)
  BY <1>1, <1>2, QuietWires
<1>10. CoreSame(t)
  BY <1>9
<1>11. FileTypes'
  BY ONLY <1>1, <1>2, <1>6, <1>7, <1>9 DEF FileTypes, CallSteps, AgentSame, CoreSame, ServedKept
<1>12. Only(t)
  BY ONLY <1>1, <1>2, <1>6, <1>7, <1>9 DEF FileTypes, Only, Unmoved, endVars, AgentSame, CoreSame, ServedKept
<1>13. t \in Downloads
  BY ONLY <1>1, <1>3, <1>5, <1>8, <1>10 DEF SoundTransfer, NumbersAt, ServedAt, AgentSame, CoreSame, UploadSound
<1>14. Writing(t)' = Writing(t) /\ Writing(t) \in {0, 1}
  BY ONLY <1>3, <1>13 DEF Writing
<1>15. Forwarding(t) = 0 /\ Forwarding(t)' = 0
  BY ONLY <1>3, <1>13, <1>5 DEF Forwarding, ServedAt
<1>16. Reached(t) /\ EndsKnown(t) /\ (t \in Uploads => UploadSound(t)) /\ (t \in Downloads => DownloadSound(t))
  BY <1>1 DEF SoundTransfer
<1>17. Reached(t)'
  BY ONLY <1>1, <1>16, <1>3, <1>5, <1>8, <1>10, <1>13, <1>14, <1>15 DEF NumbersAt, ServedAt, AgentSame,
       CoreSame, Reached
<1>18. EndsKnown(t)'
  BY ONLY <1>1, <1>16, <1>3, <1>5, <1>8, <1>10, <1>13, <1>14, <1>15 DEF NumbersAt, ServedAt, AgentSame,
       CoreSame, EndsKnown, Reached
<1>19. t \in Uploads => UploadSound(t)'
  BY ONLY <1>1, <1>16, <1>3, <1>5, <1>8, <1>10, <1>13, <1>14, <1>15 DEF NumbersAt, ServedAt, AgentSame,
       CoreSame, UploadSound
<1>20. t \in Downloads => DownloadSound(t)'
  BY ONLY <1>1, <1>16, <1>3, <1>5, <1>8, <1>10, <1>13, <1>14, <1>15 DEF NumbersAt, ServedAt, AgentSame,
       CoreSame, DownloadSound, AgentWindow, DownloadChunks
<1>21. QED
  BY <1>1, <1>11, <1>12, <1>17, <1>18, <1>19, <1>20, OneTransfer DEF SoundTransfer, NumbersAt, ToCoreFrames,
       ToAgentFrames

\* ... has sent the whole file ...
LEMMA ReadWholeKeeps ==
    ASSUME FileInv, NEW t \in Transfers, ForwardRead(t), agentKid[t].state # "closed", agentKid[t].chunks = 0
    PROVE  FileTypes' /\ FileSound'
<1>1. NumbersAt(t) /\ SoundTransfer(t) /\ FileTypes /\ FileFlags
  BY Given
<1>2. /\ agentKid[t].forward = "ready"
      /\ agentKid[t].state # "closed" /\ agentKid[t].chunks = 0
      /\ agentKid' = [agentKid EXCEPT ![t] = [agentKid[t] EXCEPT !.forward = "complete"]]
      /\ UNCHANGED <<parentDone, agentDone, framesToAgent, toCore, op, kid, stream, commit, cancel, destination>>
  BY <1>1 DEF endVars, wires, FileFlags, FileTypes, ForwardRead, ClosedKid, Unstaged
<1>3. /\ agentKid[t].forward = "ready"
      /\ agentKid[t].state # "closed" /\ agentKid[t].chunks = 0
      /\ UNCHANGED <<parentDone, agentDone>>
      /\ op'[t] = op[t] /\ commit'[t] = commit[t] /\ cancel'[t] = cancel[t] /\ kid'[t] = kid[t] /\ stream'[t] = stream[t]
  BY <1>1, <1>2 DEF FileTypes
<1>4. /\ agentKid \in [Transfers -> ServedKids] /\ agentKid[t] \in ServedKids /\ t \in Transfers
      /\ agentKid' = [agentKid EXCEPT ![t] = [agentKid[t] EXCEPT !.forward = "complete"]]
  BY <1>1, <1>2 DEF FileTypes
<1>5. ServedAt(t, agentKid[t].state, agentKid[t].credit, agentKid[t].chunks, agentKid[t].stage, "complete")
  BY ONLY <1>4 DEF ServedAt, ServedKids
<1>6. ServedKept(t)
  BY ONLY <1>4 DEF ServedKept, ServedKids
<1>7. framesToAgent' \in Seq(ToAgentFrames) /\ \A x : AgentSame(x)
  BY <1>1, <1>2, QuietWires
<1>8. AgentSame(t)
  BY <1>7
<1>9. toCore' \in Seq(ToCoreFrames) /\ \A x : CoreSame(x)
  BY <1>1, <1>2, QuietWires
<1>10. CoreSame(t)
  BY <1>9
<1>11. FileTypes'
  BY ONLY <1>1, <1>2, <1>6, <1>7, <1>9 DEF FileTypes, CallSteps, AgentSame, CoreSame, ServedKept
<1>12. Only(t)
  BY ONLY <1>1, <1>2, <1>6, <1>7, <1>9 DEF FileTypes, Only, Unmoved, endVars, AgentSame, CoreSame, ServedKept
<1>13. t \in Downloads
  BY ONLY <1>1, <1>3, <1>5, <1>8, <1>10 DEF SoundTransfer, NumbersAt, ServedAt, AgentSame, CoreSame, UploadSound
<1>14. Writing(t)' = Writing(t) /\ Writing(t) \in {0, 1}
  BY ONLY <1>3, <1>13 DEF Writing
<1>15. Forwarding(t) = 0 /\ Forwarding(t)' = 0
  BY ONLY <1>3, <1>13, <1>5 DEF Forwarding, ServedAt
<1>16. Reached(t) /\ EndsKnown(t) /\ (t \in Uploads => UploadSound(t)) /\ (t \in Downloads => DownloadSound(t))
  BY <1>1 DEF SoundTransfer
<1>17. Reached(t)'
  BY ONLY <1>1, <1>16, <1>3, <1>5, <1>8, <1>10, <1>13, <1>14, <1>15 DEF NumbersAt, ServedAt, AgentSame,
       CoreSame, Reached
<1>18. EndsKnown(t)'
  BY ONLY <1>1, <1>16, <1>3, <1>5, <1>8, <1>10, <1>13, <1>14, <1>15 DEF NumbersAt, ServedAt, AgentSame,
       CoreSame, EndsKnown, Reached
<1>19. t \in Uploads => UploadSound(t)'
  BY ONLY <1>1, <1>16, <1>3, <1>5, <1>8, <1>10, <1>13, <1>14, <1>15 DEF NumbersAt, ServedAt, AgentSame,
       CoreSame, UploadSound
<1>20. t \in Downloads => DownloadSound(t)'
  BY ONLY <1>1, <1>16, <1>3, <1>5, <1>8, <1>10, <1>13, <1>14, <1>15 DEF NumbersAt, ServedAt, AgentSame,
       CoreSame, DownloadSound, AgentWindow, DownloadChunks
<1>21. QED
  BY <1>1, <1>11, <1>12, <1>17, <1>18, <1>19, <1>20, OneTransfer DEF SoundTransfer, NumbersAt, ToCoreFrames,
       ToAgentFrames

\* ... or takes credit for a chunk.
LEMMA ReadChunkKeeps ==
    ASSUME FileInv, NEW t \in Transfers, ForwardRead(t), agentKid[t].state # "closed", agentKid[t].chunks # 0
    PROVE  FileTypes' /\ FileSound'
<1>1. NumbersAt(t) /\ SoundTransfer(t) /\ FileTypes /\ FileFlags
  BY Given
<1>2. /\ agentKid[t].forward = "ready"
      /\ agentKid[t].state # "closed" /\ agentKid[t].chunks # 0 /\ agentKid[t].credit > 0
      /\ agentKid' = [agentKid EXCEPT ![t] = [agentKid[t] EXCEPT !.forward = "holding", !.credit = agentKid[t].credit - 1, !.chunks = agentKid[t].chunks - 1]]
      /\ UNCHANGED <<parentDone, agentDone, framesToAgent, toCore, op, kid, stream, commit, cancel, destination>>
  BY <1>1 DEF endVars, wires, FileFlags, FileTypes, ForwardRead, ClosedKid, Unstaged
<1>3. /\ agentKid[t].forward = "ready"
      /\ agentKid[t].state # "closed" /\ agentKid[t].chunks # 0 /\ agentKid[t].credit > 0
      /\ UNCHANGED <<parentDone, agentDone>>
      /\ op'[t] = op[t] /\ commit'[t] = commit[t] /\ cancel'[t] = cancel[t] /\ kid'[t] = kid[t] /\ stream'[t] = stream[t]
  BY <1>1, <1>2 DEF FileTypes
<1>4. agentKid[t].credit - 1 \in Nat /\ agentKid[t].chunks - 1 \in Nat
  BY ONLY <1>1, <1>3 DEF NumbersAt
<1>5. /\ agentKid \in [Transfers -> ServedKids] /\ agentKid[t] \in ServedKids /\ t \in Transfers
      /\ agentKid' = [agentKid EXCEPT ![t] = [agentKid[t] EXCEPT !.forward = "holding", !.credit = agentKid[t].credit - 1, !.chunks = agentKid[t].chunks - 1]]
  BY <1>1, <1>2 DEF FileTypes
<1>6. ServedAt(t, agentKid[t].state, agentKid[t].credit - 1, agentKid[t].chunks - 1, agentKid[t].stage, "holding")
  BY ONLY <1>5, <1>4 DEF ServedAt, ServedKids
<1>7. ServedKept(t)
  BY ONLY <1>5, <1>4 DEF ServedKept, ServedKids
<1>8. framesToAgent' \in Seq(ToAgentFrames) /\ \A x : AgentSame(x)
  BY <1>1, <1>2, QuietWires
<1>9. AgentSame(t)
  BY <1>8
<1>10. toCore' \in Seq(ToCoreFrames) /\ \A x : CoreSame(x)
  BY <1>1, <1>2, QuietWires
<1>11. CoreSame(t)
  BY <1>10
<1>12. FileTypes'
  BY ONLY <1>1, <1>2, <1>7, <1>8, <1>10 DEF FileTypes, CallSteps, AgentSame, CoreSame, ServedKept
<1>13. Only(t)
  BY ONLY <1>1, <1>2, <1>7, <1>8, <1>10 DEF FileTypes, Only, Unmoved, endVars, AgentSame, CoreSame, ServedKept
<1>14. t \in Downloads
  BY ONLY <1>1, <1>3, <1>6, <1>9, <1>11 DEF SoundTransfer, NumbersAt, ServedAt, AgentSame, CoreSame, UploadSound
<1>15. Writing(t)' = Writing(t) /\ Writing(t) \in {0, 1}
  BY ONLY <1>3, <1>14 DEF Writing
<1>16. Forwarding(t) = 0 /\ Forwarding(t)' = 1
  BY ONLY <1>3, <1>14, <1>6 DEF Forwarding, ServedAt
<1>17. Reached(t) /\ EndsKnown(t) /\ (t \in Uploads => UploadSound(t)) /\ (t \in Downloads => DownloadSound(t))
  BY <1>1 DEF SoundTransfer
<1>18. Reached(t)'
  BY ONLY <1>1, <1>17, <1>3, <1>6, <1>9, <1>11, <1>14, <1>15, <1>16 DEF NumbersAt, ServedAt, AgentSame,
       CoreSame, Reached
<1>19. EndsKnown(t)'
  BY ONLY <1>1, <1>17, <1>3, <1>6, <1>9, <1>11, <1>14, <1>15, <1>16 DEF NumbersAt, ServedAt, AgentSame,
       CoreSame, EndsKnown, Reached
<1>20. t \in Uploads => UploadSound(t)'
  BY ONLY <1>1, <1>17, <1>3, <1>6, <1>9, <1>11, <1>14, <1>15, <1>16 DEF NumbersAt, ServedAt, AgentSame,
       CoreSame, UploadSound
<1>21. t \in Downloads => DownloadSound(t)'
  BY ONLY <1>1, <1>17, <1>3, <1>6, <1>9, <1>11, <1>14, <1>15, <1>16 DEF NumbersAt, ServedAt, AgentSame,
       CoreSame, DownloadSound, AgentWindow, DownloadChunks
<1>22. QED
  BY <1>1, <1>12, <1>13, <1>18, <1>19, <1>20, <1>21, OneTransfer DEF SoundTransfer, NumbersAt, ToCoreFrames,
       ToAgentFrames

\* The session is over before the chunk is written, ...
LEMMA ChunkLateKeeps ==
    ASSUME FileInv, NEW t \in Transfers, ForwardWrite(t), agentDone
    PROVE  FileTypes' /\ FileSound'
<1>1. NumbersAt(t) /\ SoundTransfer(t) /\ FileTypes /\ FileFlags
  BY Given
<1>2. /\ agentKid[t].forward = "holding"
      /\ agentDone
      /\ agentKid' = [agentKid EXCEPT ![t].forward = "returned"]
      /\ UNCHANGED <<parentDone, agentDone, framesToAgent, toCore, op, kid, stream, commit, cancel, destination>>
  BY <1>1 DEF endVars, wires, FileFlags, FileTypes, ForwardWrite, ClosedKid, Unstaged
<1>3. /\ agentKid[t].forward = "holding"
      /\ agentDone
      /\ UNCHANGED <<parentDone, agentDone>>
      /\ op'[t] = op[t] /\ commit'[t] = commit[t] /\ cancel'[t] = cancel[t] /\ kid'[t] = kid[t] /\ stream'[t] = stream[t]
  BY <1>1, <1>2 DEF FileTypes
<1>4. /\ agentKid \in [Transfers -> ServedKids] /\ agentKid[t] \in ServedKids /\ t \in Transfers
      /\ agentKid' = [agentKid EXCEPT ![t].forward = "returned"]
  BY <1>1, <1>2 DEF FileTypes
<1>5. ServedAt(t, agentKid[t].state, agentKid[t].credit, agentKid[t].chunks, agentKid[t].stage, "returned")
  BY ONLY <1>4 DEF ServedAt, ServedKids
<1>6. ServedKept(t)
  BY ONLY <1>4 DEF ServedKept, ServedKids
<1>7. framesToAgent' \in Seq(ToAgentFrames) /\ \A x : AgentSame(x)
  BY <1>1, <1>2, QuietWires
<1>8. AgentSame(t)
  BY <1>7
<1>9. toCore' \in Seq(ToCoreFrames) /\ \A x : CoreSame(x)
  BY <1>1, <1>2, QuietWires
<1>10. CoreSame(t)
  BY <1>9
<1>11. FileTypes'
  BY ONLY <1>1, <1>2, <1>6, <1>7, <1>9 DEF FileTypes, CallSteps, AgentSame, CoreSame, ServedKept
<1>12. Only(t)
  BY ONLY <1>1, <1>2, <1>6, <1>7, <1>9 DEF FileTypes, Only, Unmoved, endVars, AgentSame, CoreSame, ServedKept
<1>13. t \in Downloads
  BY ONLY <1>1, <1>3, <1>5, <1>8, <1>10 DEF SoundTransfer, NumbersAt, ServedAt, AgentSame, CoreSame, UploadSound
<1>14. Writing(t)' = Writing(t) /\ Writing(t) \in {0, 1}
  BY ONLY <1>3, <1>13 DEF Writing
<1>15. Forwarding(t) = 1 /\ Forwarding(t)' = 0
  BY ONLY <1>3, <1>13, <1>5 DEF Forwarding, ServedAt
<1>16. Reached(t) /\ EndsKnown(t) /\ (t \in Uploads => UploadSound(t)) /\ (t \in Downloads => DownloadSound(t))
  BY <1>1 DEF SoundTransfer
<1>17. Reached(t)'
  BY ONLY <1>1, <1>16, <1>3, <1>5, <1>8, <1>10, <1>13, <1>14, <1>15 DEF NumbersAt, ServedAt, AgentSame,
       CoreSame, Reached
<1>18. EndsKnown(t)'
  BY ONLY <1>1, <1>16, <1>3, <1>5, <1>8, <1>10, <1>13, <1>14, <1>15 DEF NumbersAt, ServedAt, AgentSame,
       CoreSame, EndsKnown, Reached
<1>19. t \in Uploads => UploadSound(t)'
  BY ONLY <1>1, <1>16, <1>3, <1>5, <1>8, <1>10, <1>13, <1>14, <1>15 DEF NumbersAt, ServedAt, AgentSame,
       CoreSame, UploadSound
<1>20. t \in Downloads => DownloadSound(t)'
  BY ONLY <1>1, <1>16, <1>3, <1>5, <1>8, <1>10, <1>13, <1>14, <1>15 DEF NumbersAt, ServedAt, AgentSame,
       CoreSame, DownloadSound, AgentWindow, DownloadChunks
<1>21. QED
  BY <1>1, <1>11, <1>12, <1>17, <1>18, <1>19, <1>20, OneTransfer DEF SoundTransfer, NumbersAt, ToCoreFrames,
       ToAgentFrames

\* ... or it is written.
LEMMA ChunkWrittenKeeps ==
    ASSUME FileInv, NEW t \in Transfers, ForwardWrite(t), ~agentDone
    PROVE  FileTypes' /\ FileSound'
<1>1. NumbersAt(t) /\ SoundTransfer(t) /\ FileTypes /\ FileFlags
  BY Given
<1>2. /\ agentKid[t].forward = "holding"
      /\ ~agentDone
      /\ agentKid' = [agentKid EXCEPT ![t].forward = IF agentKid[t].state = "closed" THEN "returned" ELSE IF agentKid[t].chunks = 0 THEN "complete" ELSE "ready"]
      /\ AgentWrites(FileFrame("data", t))
      /\ UNCHANGED <<parentDone, agentDone, framesToAgent, op, kid, stream, commit, cancel, destination>>
  BY <1>1 DEF endVars, wires, FileFlags, FileTypes, ForwardWrite, ClosedKid, Unstaged
<1>3. /\ agentKid[t].forward = "holding"
      /\ ~agentDone
      /\ UNCHANGED <<parentDone, agentDone>>
      /\ op'[t] = op[t] /\ commit'[t] = commit[t] /\ cancel'[t] = cancel[t] /\ kid'[t] = kid[t] /\ stream'[t] = stream[t]
  BY <1>1, <1>2 DEF FileTypes
<1>4. /\ agentKid \in [Transfers -> ServedKids] /\ agentKid[t] \in ServedKids /\ t \in Transfers
      /\ agentKid' = [agentKid EXCEPT ![t].forward = IF agentKid[t].state = "closed" THEN "returned" ELSE IF agentKid[t].chunks = 0 THEN "complete" ELSE "ready"]
  BY <1>1, <1>2 DEF FileTypes
<1>5. ServedAt(t, agentKid[t].state, agentKid[t].credit, agentKid[t].chunks, agentKid[t].stage, IF agentKid[t].state = "closed" THEN "returned" ELSE IF agentKid[t].chunks = 0 THEN "complete" ELSE "ready")
  BY ONLY <1>4 DEF ServedAt, ServedKids
<1>6. ServedKept(t)
  BY ONLY <1>4 DEF ServedKept, ServedKids
<1>7. framesToAgent' \in Seq(ToAgentFrames) /\ \A x : AgentSame(x)
  BY <1>1, <1>2, QuietWires
<1>8. AgentSame(t)
  BY <1>7
<1>9. PICK n \in {0, 1} : CoreWire(n, "data", t) /\ (n = 0 <=> parentDone)
  BY <1>1, <1>2, AgentWriting DEF AgentWrites, ToCoreFrames, FileFrame, FileFlags
<1>10. CoreAt(n, "data", t) /\ n \in {0, 1} /\ (n = 0 <=> parentDone)
  BY <1>9 DEF CoreWire, CoreAt
<1>11. FileTypes'
  BY ONLY <1>1, <1>2, <1>6, <1>7, <1>9 DEF FileTypes, CallSteps, AgentSame, CoreWire, ServedKept
<1>12. Only(t)
  BY ONLY <1>1, <1>2, <1>6, <1>7, <1>9 DEF FileTypes, Only, Unmoved, endVars, AgentSame, CoreWire, ServedKept
<1>13. t \in Downloads
  BY ONLY <1>1, <1>3, <1>5, <1>8, <1>10 DEF SoundTransfer, NumbersAt, ServedAt, AgentSame, CoreAt, UploadSound
<1>14. Writing(t)' = Writing(t) /\ Writing(t) \in {0, 1}
  BY ONLY <1>3, <1>13 DEF Writing
<1>15. Forwarding(t) = 1 /\ Forwarding(t)' = 0
  BY ONLY <1>3, <1>13, <1>5 DEF Forwarding, ServedAt
<1>16. Reached(t) /\ EndsKnown(t) /\ (t \in Uploads => UploadSound(t)) /\ (t \in Downloads => DownloadSound(t))
  BY <1>1 DEF SoundTransfer
<1>17. Reached(t)'
  BY ONLY <1>1, <1>16, <1>3, <1>5, <1>8, <1>10, <1>13, <1>14, <1>15 DEF NumbersAt, ServedAt, AgentSame, CoreAt,
       Reached
<1>18. EndsKnown(t)'
  BY ONLY <1>1, <1>16, <1>3, <1>5, <1>8, <1>10, <1>13, <1>14, <1>15 DEF NumbersAt, ServedAt, AgentSame, CoreAt,
       EndsKnown, Reached
<1>19. t \in Uploads => UploadSound(t)'
  BY ONLY <1>1, <1>16, <1>3, <1>5, <1>8, <1>10, <1>13, <1>14, <1>15 DEF NumbersAt, ServedAt, AgentSame, CoreAt,
       UploadSound
<1>20. t \in Downloads => DownloadSound(t)'
  BY ONLY <1>1, <1>16, <1>3, <1>5, <1>8, <1>10, <1>13, <1>14, <1>15 DEF NumbersAt, ServedAt, AgentSame, CoreAt,
       DownloadSound, AgentWindow, DownloadChunks
<1>21. QED
  BY <1>1, <1>11, <1>12, <1>17, <1>18, <1>19, <1>20, OneTransfer DEF SoundTransfer, NumbersAt, ToCoreFrames,
       ToAgentFrames

\* The session is over before the completion is written, ...
LEMMA CompleteLateKeeps ==
    ASSUME FileInv, NEW t \in Transfers, ForwardComplete(t), agentDone
    PROVE  FileTypes' /\ FileSound'
<1>1. NumbersAt(t) /\ SoundTransfer(t) /\ FileTypes /\ FileFlags
  BY Given
<1>2. /\ agentKid[t].forward = "complete"
      /\ agentDone
      /\ agentKid' = [agentKid EXCEPT ![t].forward = "returned"]
      /\ UNCHANGED <<parentDone, agentDone, framesToAgent, toCore, op, kid, stream, commit, cancel, destination>>
  BY <1>1 DEF endVars, wires, FileFlags, FileTypes, ForwardComplete, ClosedKid, Unstaged
<1>3. /\ agentKid[t].forward = "complete"
      /\ agentDone
      /\ UNCHANGED <<parentDone, agentDone>>
      /\ op'[t] = op[t] /\ commit'[t] = commit[t] /\ cancel'[t] = cancel[t] /\ kid'[t] = kid[t] /\ stream'[t] = stream[t]
  BY <1>1, <1>2 DEF FileTypes
<1>4. /\ agentKid \in [Transfers -> ServedKids] /\ agentKid[t] \in ServedKids /\ t \in Transfers
      /\ agentKid' = [agentKid EXCEPT ![t].forward = "returned"]
  BY <1>1, <1>2 DEF FileTypes
<1>5. ServedAt(t, agentKid[t].state, agentKid[t].credit, agentKid[t].chunks, agentKid[t].stage, "returned")
  BY ONLY <1>4 DEF ServedAt, ServedKids
<1>6. ServedKept(t)
  BY ONLY <1>4 DEF ServedKept, ServedKids
<1>7. framesToAgent' \in Seq(ToAgentFrames) /\ \A x : AgentSame(x)
  BY <1>1, <1>2, QuietWires
<1>8. AgentSame(t)
  BY <1>7
<1>9. toCore' \in Seq(ToCoreFrames) /\ \A x : CoreSame(x)
  BY <1>1, <1>2, QuietWires
<1>10. CoreSame(t)
  BY <1>9
<1>11. FileTypes'
  BY ONLY <1>1, <1>2, <1>6, <1>7, <1>9 DEF FileTypes, CallSteps, AgentSame, CoreSame, ServedKept
<1>12. Only(t)
  BY ONLY <1>1, <1>2, <1>6, <1>7, <1>9 DEF FileTypes, Only, Unmoved, endVars, AgentSame, CoreSame, ServedKept
<1>13. t \in Downloads
  BY ONLY <1>1, <1>3, <1>5, <1>8, <1>10 DEF SoundTransfer, NumbersAt, ServedAt, AgentSame, CoreSame, UploadSound
<1>14. Writing(t)' = Writing(t) /\ Writing(t) \in {0, 1}
  BY ONLY <1>3, <1>13 DEF Writing
<1>15. Forwarding(t) = 0 /\ Forwarding(t)' = 0
  BY ONLY <1>3, <1>13, <1>5 DEF Forwarding, ServedAt
<1>16. Reached(t) /\ EndsKnown(t) /\ (t \in Uploads => UploadSound(t)) /\ (t \in Downloads => DownloadSound(t))
  BY <1>1 DEF SoundTransfer
<1>17. Reached(t)'
  BY ONLY <1>1, <1>16, <1>3, <1>5, <1>8, <1>10, <1>13, <1>14, <1>15 DEF NumbersAt, ServedAt, AgentSame,
       CoreSame, Reached
<1>18. EndsKnown(t)'
  BY ONLY <1>1, <1>16, <1>3, <1>5, <1>8, <1>10, <1>13, <1>14, <1>15 DEF NumbersAt, ServedAt, AgentSame,
       CoreSame, EndsKnown, Reached
<1>19. t \in Uploads => UploadSound(t)'
  BY ONLY <1>1, <1>16, <1>3, <1>5, <1>8, <1>10, <1>13, <1>14, <1>15 DEF NumbersAt, ServedAt, AgentSame,
       CoreSame, UploadSound
<1>20. t \in Downloads => DownloadSound(t)'
  BY ONLY <1>1, <1>16, <1>3, <1>5, <1>8, <1>10, <1>13, <1>14, <1>15 DEF NumbersAt, ServedAt, AgentSame,
       CoreSame, DownloadSound, AgentWindow, DownloadChunks
<1>21. QED
  BY <1>1, <1>11, <1>12, <1>17, <1>18, <1>19, <1>20, OneTransfer DEF SoundTransfer, NumbersAt, ToCoreFrames,
       ToAgentFrames

\* ... or it is written.
LEMMA CompleteWrittenKeeps ==
    ASSUME FileInv, NEW t \in Transfers, ForwardComplete(t), ~agentDone
    PROVE  FileTypes' /\ FileSound'
<1>1. NumbersAt(t) /\ SoundTransfer(t) /\ FileTypes /\ FileFlags
  BY Given
<1>2. /\ agentKid[t].forward = "complete"
      /\ ~agentDone
      /\ agentKid' = [agentKid EXCEPT ![t].forward = "returned"]
      /\ AgentWrites(FileFrame("download_complete", t))
      /\ UNCHANGED <<parentDone, agentDone, framesToAgent, op, kid, stream, commit, cancel, destination>>
  BY <1>1 DEF endVars, wires, FileFlags, FileTypes, ForwardComplete, ClosedKid, Unstaged
<1>3. /\ agentKid[t].forward = "complete"
      /\ ~agentDone
      /\ UNCHANGED <<parentDone, agentDone>>
      /\ op'[t] = op[t] /\ commit'[t] = commit[t] /\ cancel'[t] = cancel[t] /\ kid'[t] = kid[t] /\ stream'[t] = stream[t]
  BY <1>1, <1>2 DEF FileTypes
<1>4. /\ agentKid \in [Transfers -> ServedKids] /\ agentKid[t] \in ServedKids /\ t \in Transfers
      /\ agentKid' = [agentKid EXCEPT ![t].forward = "returned"]
  BY <1>1, <1>2 DEF FileTypes
<1>5. ServedAt(t, agentKid[t].state, agentKid[t].credit, agentKid[t].chunks, agentKid[t].stage, "returned")
  BY ONLY <1>4 DEF ServedAt, ServedKids
<1>6. ServedKept(t)
  BY ONLY <1>4 DEF ServedKept, ServedKids
<1>7. framesToAgent' \in Seq(ToAgentFrames) /\ \A x : AgentSame(x)
  BY <1>1, <1>2, QuietWires
<1>8. AgentSame(t)
  BY <1>7
<1>9. PICK n \in {0, 1} : CoreWire(n, "download_complete", t) /\ (n = 0 <=> parentDone)
  BY <1>1, <1>2, AgentWriting DEF AgentWrites, ToCoreFrames, FileFrame, FileFlags
<1>10. CoreAt(n, "download_complete", t) /\ n \in {0, 1} /\ (n = 0 <=> parentDone)
  BY <1>9 DEF CoreWire, CoreAt
<1>11. FileTypes'
  BY ONLY <1>1, <1>2, <1>6, <1>7, <1>9 DEF FileTypes, CallSteps, AgentSame, CoreWire, ServedKept
<1>12. Only(t)
  BY ONLY <1>1, <1>2, <1>6, <1>7, <1>9 DEF FileTypes, Only, Unmoved, endVars, AgentSame, CoreWire, ServedKept
<1>13. t \in Downloads
  BY ONLY <1>1, <1>3, <1>5, <1>8, <1>10 DEF SoundTransfer, NumbersAt, ServedAt, AgentSame, CoreAt, UploadSound
<1>14. Writing(t)' = Writing(t) /\ Writing(t) \in {0, 1}
  BY ONLY <1>3, <1>13 DEF Writing
<1>15. Forwarding(t) = 0 /\ Forwarding(t)' = 0
  BY ONLY <1>3, <1>13, <1>5 DEF Forwarding, ServedAt
<1>16. Reached(t) /\ EndsKnown(t) /\ (t \in Uploads => UploadSound(t)) /\ (t \in Downloads => DownloadSound(t))
  BY <1>1 DEF SoundTransfer
<1>17. Reached(t)'
  BY ONLY <1>1, <1>16, <1>3, <1>5, <1>8, <1>10, <1>13, <1>14, <1>15 DEF NumbersAt, ServedAt, AgentSame, CoreAt,
       Reached
<1>18. EndsKnown(t)'
  BY ONLY <1>1, <1>16, <1>3, <1>5, <1>8, <1>10, <1>13, <1>14, <1>15 DEF NumbersAt, ServedAt, AgentSame, CoreAt,
       EndsKnown, Reached
<1>19. t \in Uploads => UploadSound(t)'
  BY ONLY <1>1, <1>16, <1>3, <1>5, <1>8, <1>10, <1>13, <1>14, <1>15 DEF NumbersAt, ServedAt, AgentSame, CoreAt,
       UploadSound
<1>20. t \in Downloads => DownloadSound(t)'
  BY ONLY <1>1, <1>16, <1>3, <1>5, <1>8, <1>10, <1>13, <1>14, <1>15 DEF NumbersAt, ServedAt, AgentSame, CoreAt,
       DownloadSound, AgentWindow, DownloadChunks
<1>21. QED
  BY <1>1, <1>11, <1>12, <1>17, <1>18, <1>19, <1>20, OneTransfer DEF SoundTransfer, NumbersAt, ToCoreFrames,
       ToAgentFrames

\* The file cannot be read on.
LEMMA ForwardFailsKeeps ==
    ASSUME FileInv, NEW t \in Transfers, ForwardFails(t), TRUE
    PROVE  FileTypes' /\ FileSound'
<1>1. NumbersAt(t) /\ SoundTransfer(t) /\ FileTypes /\ FileFlags
  BY Given
<1>2. /\ agentKid[t].forward = "ready"
      /\ agentKid[t].state = "open"
      /\ agentKid' = [agentKid EXCEPT ![t] = [agentKid[t] EXCEPT !.state = "closed", !.stage = Unstaged(agentKid[t].stage, FALSE), !.forward = "returned"]]
      /\ AgentWrites(FileFrame("error", t))
      /\ UNCHANGED <<parentDone, agentDone, framesToAgent, op, kid, stream, commit, cancel, destination>>
  BY <1>1 DEF endVars, wires, FileFlags, FileTypes, ForwardFails, ClosedKid
<1>3. /\ agentKid[t].forward = "ready"
      /\ agentKid[t].state = "open"
      /\ UNCHANGED <<parentDone, agentDone>>
      /\ op'[t] = op[t] /\ commit'[t] = commit[t] /\ cancel'[t] = cancel[t] /\ kid'[t] = kid[t] /\ stream'[t] = stream[t]
  BY <1>1, <1>2 DEF FileTypes
<1>4. /\ agentKid \in [Transfers -> ServedKids] /\ agentKid[t] \in ServedKids /\ t \in Transfers
      /\ agentKid' = [agentKid EXCEPT ![t] = [agentKid[t] EXCEPT !.state = "closed", !.stage = Unstaged(agentKid[t].stage, FALSE), !.forward = "returned"]]
  BY <1>1, <1>2 DEF FileTypes
<1>5. ServedAt(t, "closed", agentKid[t].credit, agentKid[t].chunks, Unstaged(agentKid[t].stage, FALSE), "returned")
  BY ONLY <1>4 DEF ServedAt, ServedKids, Unstaged
<1>6. ServedKept(t)
  BY ONLY <1>4 DEF ServedKept, ServedKids, Unstaged
<1>7. framesToAgent' \in Seq(ToAgentFrames) /\ \A x : AgentSame(x)
  BY <1>1, <1>2, QuietWires
<1>8. AgentSame(t)
  BY <1>7
<1>9. PICK n \in {0, 1} : CoreWire(n, "error", t) /\ (n = 0 <=> parentDone)
  BY <1>1, <1>2, AgentWriting DEF AgentWrites, ToCoreFrames, FileFrame, FileFlags
<1>10. CoreAt(n, "error", t) /\ n \in {0, 1} /\ (n = 0 <=> parentDone)
  BY <1>9 DEF CoreWire, CoreAt
<1>11. FileTypes'
  BY ONLY <1>1, <1>2, <1>6, <1>7, <1>9 DEF FileTypes, CallSteps, AgentSame, CoreWire, ServedKept
<1>12. Only(t)
  BY ONLY <1>1, <1>2, <1>6, <1>7, <1>9 DEF FileTypes, Only, Unmoved, endVars, AgentSame, CoreWire, ServedKept
<1>13. t \in Downloads
  BY ONLY <1>1, <1>3, <1>5, <1>8, <1>10 DEF SoundTransfer, NumbersAt, ServedAt, AgentSame, CoreAt, UploadSound
<1>14. Writing(t)' = Writing(t) /\ Writing(t) \in {0, 1}
  BY ONLY <1>3, <1>13 DEF Writing
<1>15. Forwarding(t) = 0 /\ Forwarding(t)' = 0
  BY ONLY <1>3, <1>13, <1>5 DEF Forwarding, ServedAt
<1>16. Reached(t) /\ EndsKnown(t) /\ (t \in Uploads => UploadSound(t)) /\ (t \in Downloads => DownloadSound(t))
  BY <1>1 DEF SoundTransfer
<1>17. Reached(t)'
  BY ONLY <1>1, <1>16, <1>3, <1>5, <1>8, <1>10, <1>13, <1>14, <1>15 DEF NumbersAt, ServedAt, AgentSame, CoreAt,
       Reached
<1>18. EndsKnown(t)'
  BY ONLY <1>1, <1>16, <1>3, <1>5, <1>8, <1>10, <1>13, <1>14, <1>15 DEF NumbersAt, ServedAt, AgentSame, CoreAt,
       EndsKnown, Reached, Unstaged
<1>19. t \in Uploads => UploadSound(t)'
  BY ONLY <1>1, <1>16, <1>3, <1>5, <1>8, <1>10, <1>13, <1>14, <1>15 DEF NumbersAt, ServedAt, AgentSame, CoreAt,
       UploadSound
<1>20. t \in Downloads => DownloadSound(t)'
  BY ONLY <1>1, <1>16, <1>3, <1>5, <1>8, <1>10, <1>13, <1>14, <1>15 DEF NumbersAt, ServedAt, AgentSame, CoreAt,
       DownloadSound, AgentWindow, DownloadChunks
<1>21. QED
  BY <1>1, <1>11, <1>12, <1>17, <1>18, <1>19, <1>20, OneTransfer DEF SoundTransfer, NumbersAt, ToCoreFrames,
       ToAgentFrames

-----------------------------------------------------------------------------
(* The steps that end one side, and the others.                             *)

\* What a call holds after the parent has ended.
LaterCall(now, later) == later = now \/ (now = "waiting" /\ later = "failed")

\* The parent ends: every child is done, and what was on the way to the Core is dropped.
LEMMA ParentEndKeeps ==
    ASSUME FileInv, Finish,
           UNCHANGED <<framesToAgent, agentDone, stream, agentKid, destination>>,
           op' \in [Transfers -> {"none", "reserved", "listed", "gone"}],
           commit' \in [Transfers -> CallSteps], cancel' \in [Transfers -> CallSteps],
           \A t \in Transfers : /\ op'[t] \in {op[t], "gone"}
                                /\ LaterCall(commit[t], commit'[t]) /\ LaterCall(cancel[t], cancel'[t])
    PROVE  FileTypes' /\ FileSound'
<1>1. FileTypes
  BY DEF FileInv
<1>2. toCore' \in Seq(ToCoreFrames) /\ (\A type, t : SentToCore(type, t)' = 0) /\ (\A t : DataThenComplete(t)')
  BY DroppedWires DEF Finish
<1>3. framesToAgent' \in Seq(ToAgentFrames) /\ \A t : AgentSame(t)
  BY <1>1, QuietWires
<1>4. kid' \in [Transfers -> ClientKids]
  <2>1. \A k \in ClientKids : [k EXCEPT !.state = "done"] \in ClientKids
    BY DEF ClientKids
  <2>2. kid \in [Transfers -> ClientKids]
    BY <1>1 DEF FileTypes
  <2>3. QED
    BY <2>1, <2>2 DEF Finish
<1>5. FileTypes'
  BY <1>1, <1>2, <1>3, <1>4 DEF FileTypes
<1>6. SUFFICES ASSUME NEW t \in Transfers PROVE SoundTransfer(t)'
  BY <1>5 DEF FileSound, SoundTransfer
<1>7. NumbersAt(t) /\ SoundTransfer(t)
  BY Given
<1>8. KidAt(t, IF kid[t].state \in {"opening", "open"} THEN "done" ELSE kid[t].state, kid[t].accepted,
            kid[t].closing, kid[t].failed, kid[t].credit, kid[t].queued)
  BY <1>1 DEF FileTypes, Finish, ClientKids, KidAt
<1>9. kid[t].state \in {"none", "opening", "open", "done"}
  BY <1>1 DEF FileTypes, ClientKids
<1>10. /\ parentDone' = TRUE /\ agentDone' = agentDone /\ stream'[t] = stream[t] /\ agentKid'[t] = agentKid[t]
       /\ op'[t] \in {op[t], "gone"}
       /\ LaterCall(commit[t], commit'[t]) /\ LaterCall(cancel[t], cancel'[t])
  BY DEF Finish
<1>11. /\ \A type : SentToCore(type, t)' = 0
       /\ DataThenComplete(t)'
       /\ AgentSame(t)
  BY <1>2, <1>3
<1>12. Writing(t)' = Writing(t) /\ Forwarding(t)' = Forwarding(t) /\ Writing(t) \in {0, 1} /\ Forwarding(t) \in {0, 1}
  BY ONLY <1>10 DEF Writing, Forwarding
<1>13. Reached(t) /\ EndsKnown(t) /\ (t \in Uploads => UploadSound(t)) /\ (t \in Downloads => DownloadSound(t))
  BY <1>7 DEF SoundTransfer
<1>14. Reached(t)'
  BY ONLY <1>13, <1>8, <1>10, <1>11 DEF Reached, KidAt, AgentSame, LaterCall
<1>15. EndsKnown(t)'
  BY ONLY <1>13, <1>8, <1>9, <1>10, <1>11 DEF EndsKnown, Reached, KidAt, AgentSame
<1>16. t \in Uploads => UploadSound(t)'
  BY ONLY <1>7, <1>13, <1>8, <1>10, <1>11, <1>12 DEF UploadSound, KidAt, AgentSame, LaterCall, NumbersAt
<1>17. t \in Downloads => DownloadSound(t)'
  BY ONLY <1>7, <1>13, <1>8, <1>10, <1>11, <1>12 DEF DownloadSound, KidAt, AgentSame, LaterCall, NumbersAt,
       AgentWindow, DownloadChunks
<1>18. QED
  BY <1>14, <1>15, <1>16, <1>17 DEF SoundTransfer

\* The agent's session ends: every child is closed.
LEMMA AgentReturnsKeeps ==
    ASSUME FileInv, AgentReturns, UNCHANGED <<toCore, parentDone, op, kid, stream, commit, cancel, destination>>
    PROVE  FileTypes' /\ FileSound'
<1>1. FileTypes
  BY DEF FileInv
<1>2. framesToAgent' \in Seq(ToAgentFrames) /\ (\A type, t : SentToAgent(type, t)' = 0) /\ (\A t : DataThenClose(t)')
  BY DroppedWires DEF AgentReturns
<1>3. toCore' \in Seq(ToCoreFrames) /\ \A t : CoreSame(t)
  BY <1>1, QuietWires
<1> PICK kept \in SUBSET ActiveFiles :
       agentKid' = [t \in Transfers |-> IF t \in ActiveFiles THEN ClosedKid(agentKid[t], t \in kept)
                                       ELSE agentKid[t]]
  BY DEF AgentReturns
<1>4. agentKid' \in [Transfers -> ServedKids]
  BY <1>1 DEF FileTypes, ServedKids, ClosedKid, Unstaged
<1>5. FileTypes'
  BY <1>1, <1>2, <1>3, <1>4 DEF FileTypes
<1>6. SUFFICES ASSUME NEW t \in Transfers PROVE SoundTransfer(t)'
  BY <1>5 DEF FileSound, SoundTransfer
<1>7. NumbersAt(t) /\ SoundTransfer(t)
  BY Given
<1>8. ServedAt(t, IF agentKid[t].state = "open" THEN "closed" ELSE agentKid[t].state, agentKid[t].credit, agentKid[t].chunks,
               IF agentKid[t].state = "open" THEN Unstaged(agentKid[t].stage, t \in kept) ELSE agentKid[t].stage, agentKid[t].forward)
  BY <1>1 DEF FileTypes, ActiveFiles, ServedKids, ServedAt, ClosedKid, Unstaged
<1>9. agentKid[t].state \in {"none", "open", "closed"}
  BY <1>1 DEF FileTypes, ServedKids
<1>10. /\ agentDone' = TRUE /\ parentDone' = parentDone /\ stream'[t] = stream[t] /\ kid'[t] = kid[t]
       /\ op'[t] = op[t] /\ commit'[t] = commit[t] /\ cancel'[t] = cancel[t]
  BY DEF AgentReturns
<1>11. /\ \A type : SentToAgent(type, t)' = 0
       /\ DataThenClose(t)'
       /\ CoreSame(t)
  BY <1>2, <1>3
<1>12. Writing(t)' = Writing(t) /\ Forwarding(t)' = Forwarding(t) /\ Writing(t) \in {0, 1} /\ Forwarding(t) \in {0, 1}
  BY ONLY <1>8, <1>10 DEF Writing, Forwarding, ServedAt
<1>13. Reached(t) /\ EndsKnown(t) /\ (t \in Uploads => UploadSound(t)) /\ (t \in Downloads => DownloadSound(t))
  BY <1>7 DEF SoundTransfer
<1>14. Reached(t)'
  BY ONLY <1>13, <1>8, <1>9, <1>10, <1>11 DEF Reached, ServedAt, CoreSame
<1>15. EndsKnown(t)'
  BY ONLY <1>13, <1>8, <1>9, <1>10, <1>11 DEF EndsKnown, Reached, ServedAt, CoreSame, Unstaged
<1>16. t \in Uploads => UploadSound(t)'
  BY ONLY <1>7, <1>13, <1>8, <1>10, <1>11, <1>12 DEF UploadSound, ServedAt, CoreSame, NumbersAt
<1>17. t \in Downloads => DownloadSound(t)'
  BY ONLY <1>7, <1>13, <1>8, <1>10, <1>11, <1>12 DEF DownloadSound, ServedAt, CoreSame, NumbersAt, AgentWindow,
       DownloadChunks
<1>18. QED
  BY <1>14, <1>15, <1>16, <1>17 DEF SoundTransfer

\* A step that touches no transfer, or nothing at all.
LEMMA NoTransferMoves ==
    ASSUME FileInv, UNCHANGED <<wires, endVars, op, kid, stream, commit, cancel, agentKid>>,
           destination' \in {destination, LocalFile}
    PROVE  FileTypes' /\ FileSound'
<1>1. FileTypes' /\ UNCHANGED endVars
  BY DEF FileInv, FileTypes, wires
<1>2. \A t \in Transfers : Unmoved(t) /\ SoundTransfer(t)
  BY Given DEF wires, Unmoved, SentToAgent, SentToCore, DataThenClose, DataThenComplete
<1>3. QED
  BY <1>1, <1>2, OtherTransfers DEF FileSound, SoundTransfer

-----------------------------------------------------------------------------
(* The steps together.                                                      *)

\* What the monitor does with one frame.
LEMMA FileMonitorKeeps == ASSUME FileInv, FileMonitor PROVE FileTypes' /\ FileSound'
<1>1. FileTypes /\ toCore # <<>> /\ toCore \in Seq(ToCoreFrames)
  BY DEF FileMonitor, FileInv, FileTypes
<1>2. Head(toCore) \in ToCoreFrames
  BY <1>1, HeadTailProperties
<1>3. PICK type \in {"accepted", "data", "window", "error", "peer_close", "download_complete"}, t \in Transfers :
         Head(toCore) = FileFrame(type, t)
  BY <1>2 DEF ToCoreFrames, FileFrame
<1>4. FileFrame(type, t).type = type /\ FileFrame(type, t).t = t
  BY DEF FileFrame
<1>5. CASE Takes(Head(toCore))
  <2>1. CoreTakes(type, t)
    BY <1>3, <1>4, <1>5 DEF FileMonitor, CoreTakes
  <2>2. CASE type = "accepted"
    BY <2>1, <2>2, AcceptedUpKeeps, AcceptedDownKeeps DEF Transfers
  <2>3. CASE type = "data"
    BY <2>1, <2>3, DataTakenKeeps
  <2>4. CASE type = "window"
    BY <2>1, <2>4, WindowTakenKeeps
  <2>5. CASE type = "error"
    BY <2>1, <2>5, ErrorTakenKeeps
  <2>6. CASE type = "peer_close"
    BY <2>1, <2>6, CloseTakenKeeps
  <2>7. CASE type = "download_complete"
    BY <2>1, <2>7, CompleteTakenKeeps, CompleteIgnoredKeeps
  <2>8. QED
    BY <1>3, <2>2, <2>3, <2>4, <2>5, <2>6, <2>7
<1>6. CASE ~Takes(Head(toCore))
  BY <1>1, <1>6, ParentEndKeeps DEF FileMonitor, FileTypes, LaterCall
<1>7. QED
  BY <1>5, <1>6

\* What the dispatcher does with one frame.
LEMMA DispatchFileKeeps == ASSUME FileInv, DispatchFile PROVE FileTypes' /\ FileSound'
<1>1. FileTypes /\ framesToAgent # <<>> /\ framesToAgent \in Seq(ToAgentFrames)
  BY DEF DispatchFile, FileInv, FileTypes
<1>2. Head(framesToAgent) \in ToAgentFrames
  BY <1>1, HeadTailProperties
<1>3. PICK type \in {"open", "data", "window", "close", "error"}, t \in Transfers :
         Head(framesToAgent) = FileFrame(type, t)
  BY <1>2 DEF ToAgentFrames, FileFrame
<1>4. FileFrame(type, t).type = type /\ FileFrame(type, t).t = t
  BY DEF FileFrame
<1>5. CASE Valid(Head(framesToAgent))
  <2>1. AgentTakes(type, t)
    BY <1>3, <1>4, <1>5 DEF DispatchFile, AgentTakes
  <2>2. \/ type = "open" /\ HandleFileOpen(t)
        \/ type = "data" /\ HandleFileData(t)
        \/ type = "window" /\ HandleFileWindow(t)
        \/ type = "close" /\ HandleFileClose(t)
        \/ type = "error" /\ HandleFileError(t)
    BY <1>3, <1>4, <1>5 DEF DispatchFile
  <2>3. CASE type = "open" /\ HandleFileOpen(t)
    <3>1. CASE t \in Uploads /\ OpenUpload(t)
      BY <2>1, <2>3, <3>1, UploadOpenedKeeps DEF OpenUpload, HandleFileOpen
    <3>2. CASE t \in Downloads /\ OpenDownload(t)
      BY <2>1, <2>3, <3>2, DownloadOpenedKeeps DEF OpenDownload, HandleFileOpen
    <3>3. CASE RefuseFile(t)
      BY <2>1, <2>3, <3>3, FileRefusedKeeps DEF RefuseFile, HandleFileOpen
    <3>4. QED
      BY <2>3, <3>1, <3>2, <3>3 DEF HandleFileOpen, Transfers
  <2>4. CASE type = "data" /\ HandleFileData(t)
    BY <2>1, <2>4, ChunkStagedKeeps, ChunkRefusedKeeps DEF HandleFileData
  <2>5. CASE type = "window" /\ HandleFileWindow(t)
    BY <2>1, <2>5, CreditGivenKeeps DEF HandleFileWindow
  <2>6. CASE type = "close" /\ HandleFileClose(t)
    BY <2>1, <2>6, UploadPublishedKeeps, UploadFailsKeeps, DownloadStoppedKeeps, DownloadOverKeeps DEF
         HandleFileClose
  <2>7. CASE type = "error" /\ HandleFileError(t)
    BY <2>1, <2>7, FileCancelledKeeps DEF HandleFileError
  <2>8. QED
    BY <2>2, <2>3, <2>4, <2>5, <2>6, <2>7
<1>6. CASE ~Valid(Head(framesToAgent))
  BY <1>6, AgentReturnsKeeps DEF DispatchFile
<1>7. QED
  BY <1>5, <1>6

\* Every step keeps what is said of each transfer.
LEMMA TransfersStaySound ==
    ASSUME FileInv, TransferNext \/ UNCHANGED transferVars
    PROVE  FileTypes' /\ FileSound'
<1>1. FileTypes
  BY DEF FileInv
<1>2. ASSUME NEW t \in Transfers, FileCallerStep(t) PROVE FileTypes' /\ FileSound'
  <2>1. CASE OpenReturns(t) \/ WatchOperation(t)
    BY <2>1, OpenReturnsKeeps, WatchOperationKeeps
  <2>2. CASE WriteChunk(t)
    BY <2>2, WriteChunkKeeps, WriteLateKeeps
  <2>3. CASE TakeChunk(t) \/ ReadEnds(t)
    BY <2>3, TakeChunkKeeps, ReadEndsKeeps
  <2>4. CASE ReturnCredit(t)
    BY <2>4, ReturnCreditKeeps, ReturnLateKeeps
  <2>5. CASE Commit(t)
    BY <2>5, CommitDoneKeeps, CommitClosingKeeps, CommitClosesKeeps
  <2>6. CASE CancelFile(t)
    BY <2>6, CancelDoneKeeps, CancelSendsKeeps
  <2>7. CASE CommitReturns(t) \/ CancelReturns(t)
    BY <2>7, CommitReturnsKeeps, CancelReturnsKeeps
  <2>8. QED
    BY <1>2, <2>1, <2>2, <2>3, <2>4, <2>5, <2>6, <2>7 DEF FileCallerStep
<1>3. ASSUME NEW t \in Transfers, FileUserStep(t) PROVE FileTypes' /\ FileSound'
  <2>1. CASE Open(t)
    BY <2>1, OpenUpKeeps, OpenDownKeeps DEF Transfers
  <2>2. CASE OpenTimesOut(t)
    BY <1>1, <2>2, ParentEndKeeps DEF OpenTimesOut, FileTypes, LaterCall
  <2>3. CASE CallTimesOut(t)
    <3>1. /\ commit' \in [Transfers -> CallSteps] /\ cancel' \in [Transfers -> CallSteps]
          /\ \A x \in Transfers : LaterCall(commit[x], commit'[x]) /\ LaterCall(cancel[x], cancel'[x])
      BY <1>1, <2>3 DEF CallTimesOut, FileTypes, CallSteps, LaterCall
    <3>2. Finish /\ UNCHANGED <<framesToAgent, agentDone, op, stream, agentKid, destination>>
      BY <2>3 DEF CallTimesOut
    <3>3. QED
      BY <1>1, <3>1, <3>2, ParentEndKeeps DEF FileTypes
  <2>4. CASE TakeSendCredit(t) \/ BeginRead(t) \/ BeginCommit(t) \/ BeginCancel(t)
    BY <2>4, TakeSendCreditKeeps, BeginReadKeeps, BeginCommitKeeps, BeginCancelKeeps
  <2>5. QED
    BY <1>3, <2>1, <2>2, <2>3, <2>4 DEF FileUserStep
<1>4. ASSUME NEW t \in Transfers, ForwarderStep(t) \/ ForwardFails(t) PROVE FileTypes' /\ FileSound'
  <2>1. CASE ForwardRead(t)
    BY <2>1, ReadStopsKeeps, ReadWholeKeeps, ReadChunkKeeps
  <2>2. CASE ForwardWrite(t)
    BY <2>2, ChunkLateKeeps, ChunkWrittenKeeps
  <2>3. CASE ForwardComplete(t)
    BY <2>3, CompleteLateKeeps, CompleteWrittenKeeps
  <2>4. CASE ForwardFails(t)
    BY <2>4, ForwardFailsKeeps
  <2>5. QED
    BY <1>4, <2>1, <2>2, <2>3, <2>4 DEF ForwarderStep
<1>5. CASE FileMonitorEnds \/ ParentEnds
  BY <1>1, <1>5, ParentEndKeeps DEF FileMonitorEnds, ParentEnds, FileTypes, LaterCall
<1>6. CASE AgentEnds
  BY <1>6, AgentReturnsKeeps DEF AgentEnds
<1>7. CASE LocalFileAppears
  BY <1>7, NoTransferMoves DEF LocalFileAppears
<1>8. CASE UNCHANGED transferVars
  BY <1>8, NoTransferMoves DEF transferVars
<1>9. QED
  BY <1>2, <1>3, <1>4, <1>5, <1>6, <1>7, <1>8, CompleteSeenKeeps, FileMonitorKeeps, DispatchFileKeeps DEF TransferNext

-----------------------------------------------------------------------------
(* The agent has room for the streams the Core opens.                       *)

\* What a step does to the wires: an end that is gone reads nothing, ...
EndsStayClosed ==
    /\ FileFlags'
    /\ toCore' = <<>> \/ (UNCHANGED parentDone /\ (parentDone => UNCHANGED toCore))
    /\ framesToAgent' = <<>> \/ (UNCHANGED agentDone /\ (agentDone => UNCHANGED framesToAgent))

\* ... and except where one is opened, no stream becomes open at either end.
NoneOpens ==
    /\ \A t \in Transfers : kid'[t].state \in {"opening", "open"} => kid[t].state \in {"opening", "open"}
    /\ \A t \in Transfers : agentKid'[t].state = "open" => agentKid[t].state = "open"
    /\ \/ framesToAgent' = framesToAgent \/ framesToAgent' = <<>>
       \/ \E f \in ToAgentFrames : f.type # "open" /\ framesToAgent' = Append(framesToAgent, f)

\* A stream is asked for, ...
StreamAsked(t0) ==
    /\ ~parentDone /\ Cardinality(FileStreams) < FileStreamLimit
    /\ \A t \in Transfers \ {t0} : kid'[t] = kid[t]
    /\ UNCHANGED agentKid
    /\ framesToAgent' = IF agentDone THEN framesToAgent ELSE Append(framesToAgent, FileFrame("open", t0))

\* ... and the dispatcher takes a frame in.
FrameTaken(type, t0) ==
    /\ framesToAgent # <<>> /\ Head(framesToAgent) = FileFrame(type, t0) /\ framesToAgent' = Tail(framesToAgent)
    /\ UNCHANGED kid
    /\ \A t \in Transfers \ {t0} : agentKid'[t] = agentKid[t]
    /\ agentKid'[t0].state = "open" => agentKid[t0].state = "open" \/ type = "open"
    /\ type = "close" => agentKid[t0].state = "open" /\ agentKid'[t0].state # "open"

\* The types of a frame, a child and a served child.
LEMMA FileTypesAt ==
    ASSUME FileTypes, NEW t \in Transfers
    PROVE  /\ kid[t] \in ClientKids /\ agentKid[t] \in ServedKids
           /\ \A type \in {"open", "data", "window", "close", "error"} :
                 FileFrame(type, t) \in ToAgentFrames /\ FileFrame(type, t).type = type
BY DEF FileTypes, FileFrame, ToAgentFrames

\* What the calls of the Core do.
LEMMA CallerEffects ==
    ASSUME FileTypes, FileFlags, NEW t \in Transfers, FileCallerStep(t)
    PROVE  EndsStayClosed /\ NoneOpens
<1> USE DEF FileCallerStep, OpenReturns, WatchOperation, CommitReturns, CancelReturns, TakeChunk, ReadEnds, WriteChunk,
         ReturnCredit, Commit, CancelFile
<1>1. EndsStayClosed
  BY DEF EndsStayClosed, FileFlags, CoreWrites, wires, endVars
<1>2. UNCHANGED agentKid
  OBVIOUS
<1>3. \A x \in Transfers : kid'[x].state = kid[x].state
  <2>1. kid \in [Transfers -> ClientKids] /\ \A x \in Transfers : kid[x] \in ClientKids
    BY DEF FileTypes
  <2>2. \/ UNCHANGED kid
        \/ kid' = [kid EXCEPT ![t].queued = @ - 1]
        \/ kid' = [kid EXCEPT ![t].credit = @ + 1]
        \/ kid' = [kid EXCEPT ![t].closing = TRUE]
    BY FileTypes
  <2>3. QED
    BY ONLY <2>1, <2>2 DEF ClientKids
<1>4. UNCHANGED framesToAgent \/ \E type \in {"data", "window", "close", "error"} : CoreWrites(FileFrame(type, t))
  BY DEF wires
<1>5. UNCHANGED framesToAgent \/ \E f \in ToAgentFrames : f.type # "open" /\ framesToAgent' = Append(framesToAgent, f)
  BY <1>4, FileTypesAt DEF CoreWrites
<1>6. QED
  BY <1>1, <1>2, <1>3, <1>5 DEF NoneOpens

\* What the end of the parent does.
LEMMA FinishEffects ==
    ASSUME FileTypes, FileFlags, Finish, UNCHANGED <<framesToAgent, agentDone, agentKid>>
    PROVE  EndsStayClosed /\ NoneOpens
<1>1. EndsStayClosed
  BY DEF EndsStayClosed, FileFlags, Finish
<1>2. NoneOpens
  BY DEF NoneOpens, Finish, FileTypes, ClientKids
<1>3. QED
  BY <1>1, <1>2

\* What a user may do.
LEMMA UserEffects ==
    ASSUME FileTypes, FileFlags, NEW t \in Transfers, FileUserStep(t)
    PROVE  EndsStayClosed /\ (NoneOpens \/ StreamAsked(t))
<1>1. CASE Open(t)
  <2>1. EndsStayClosed
    BY <1>1 DEF EndsStayClosed, FileFlags, Open, OpenFileStream, CoreWrites, endVars
  <2>2. StreamAsked(t)
    BY <1>1 DEF StreamAsked, Open, OpenFileStream, CoreWrites, FileTypes
  <2>3. QED
    BY <2>1, <2>2
<1>2. CASE OpenTimesOut(t) \/ CallTimesOut(t)
  BY <1>2, FinishEffects DEF OpenTimesOut, CallTimesOut
<1>3. CASE BeginRead(t) \/ BeginCommit(t) \/ BeginCancel(t)
  BY <1>3 DEF BeginRead, BeginCommit, BeginCancel, EndsStayClosed, NoneOpens, FileFlags, wires, endVars
<1>4. CASE TakeSendCredit(t)
  BY <1>4, FileTypesAt DEF TakeSendCredit, EndsStayClosed, NoneOpens, FileFlags, wires, endVars, FileTypes,
       ClientKids
<1>5. QED
  BY <1>1, <1>2, <1>3, <1>4 DEF FileUserStep

\* What the agent's forwarder does.
LEMMA ForwarderEffects ==
    ASSUME FileTypes, FileFlags, NEW t \in Transfers, ForwarderStep(t) \/ ForwardFails(t)
    PROVE  EndsStayClosed /\ NoneOpens
<1>1. EndsStayClosed
  BY DEF EndsStayClosed, FileFlags, ForwarderStep, ForwardRead, ForwardWrite, ForwardComplete, ForwardFails,
       AgentWrites, wires, endVars
<1>2. UNCHANGED <<framesToAgent, kid>>
  BY DEF ForwarderStep, ForwardRead, ForwardWrite, ForwardComplete, ForwardFails, wires
<1>3. agentKid \in [Transfers -> ServedKids] /\ agentKid[t] \in ServedKids
  BY DEF FileTypes
<1>4. CASE ForwardRead(t)
  BY <1>1, <1>2, <1>3, <1>4 DEF NoneOpens, ForwardRead, ServedKids
<1>5. CASE ForwardWrite(t) \/ ForwardComplete(t)
  BY <1>1, <1>2, <1>3, <1>5 DEF NoneOpens, ForwardWrite, ForwardComplete, ServedKids
<1>6. CASE ForwardFails(t)
  BY <1>1, <1>2, <1>3, <1>6 DEF NoneOpens, ForwardFails, ClosedKid, ServedKids
<1>7. QED
  BY <1>4, <1>5, <1>6 DEF ForwarderStep

\* What the monitor does.
LEMMA MonitorEffects == ASSUME FileTypes, FileFlags, FileMonitor PROVE EndsStayClosed /\ NoneOpens
<1>1. toCore # <<>> /\ toCore \in Seq(ToCoreFrames)
  BY DEF FileMonitor, FileTypes
<1>2. PICK type \in {"accepted", "data", "window", "error", "peer_close", "download_complete"}, t \in Transfers :
         Head(toCore) = FileFrame(type, t)
  <2>1. Head(toCore) \in ToCoreFrames
    BY <1>1, HeadTailProperties
  <2>2. QED
    BY <2>1 DEF ToCoreFrames, FileFrame
<1>3. FileFrame(type, t).type = type /\ FileFrame(type, t).t = t
  BY DEF FileFrame
<1>4. CASE Takes(FileFrame(type, t))
  <2>1. /\ ~parentDone /\ kid' = [kid EXCEPT ![t] = Handled(FileFrame(type, t))]
        /\ UNCHANGED <<parentDone, agentDone, agentKid>>
        /\ CoreWrites(FileFrame("close", t)) \/ UNCHANGED framesToAgent
    BY <1>2, <1>3, <1>4 DEF FileMonitor
  <2>2. Handled(FileFrame(type, t)).state \in {"opening", "open"} => kid[t].state \in {"opening", "open"}
    BY <1>2, <1>3, <1>4, FileTypesAt DEF Takes, Handled, FailedKid, ClientKids
  <2>3. EndsStayClosed
    BY <2>1 DEF EndsStayClosed, FileFlags, CoreWrites
  <2>4. NoneOpens
    BY <2>1, <2>2, FileTypesAt DEF NoneOpens, CoreWrites, FileTypes
  <2>5. QED
    BY <2>3, <2>4
<1>5. CASE ~Takes(FileFrame(type, t))
  BY <1>2, <1>5, FinishEffects DEF FileMonitor
<1>6. QED
  BY <1>4, <1>5

\* What the end of the agent's session does.
LEMMA AgentReturnsEffects ==
    ASSUME FileTypes, FileFlags, AgentReturns, UNCHANGED <<toCore, parentDone, kid>>
    PROVE  EndsStayClosed /\ NoneOpens
<1>1. EndsStayClosed
  BY DEF EndsStayClosed, FileFlags, AgentReturns
<1>2. NoneOpens
  BY DEF NoneOpens, AgentReturns, ActiveFiles, FileTypes, ServedKids, ClosedKid
<1>3. QED
  BY <1>1, <1>2

\* What the dispatcher does.
LEMMA DispatchEffects ==
    ASSUME FileTypes, FileFlags, DispatchFile
    PROVE  EndsStayClosed /\ (NoneOpens \/ \E type \in {"open", "data", "window", "close", "error"}, t \in Transfers : FrameTaken(type, t))
<1>1. framesToAgent # <<>> /\ framesToAgent \in Seq(ToAgentFrames)
  BY DEF DispatchFile, FileTypes
<1>2. PICK type \in {"open", "data", "window", "close", "error"}, t \in Transfers :
         Head(framesToAgent) = FileFrame(type, t)
  <2>1. Head(framesToAgent) \in ToAgentFrames
    BY <1>1, HeadTailProperties
  <2>2. QED
    BY <2>1 DEF ToAgentFrames, FileFrame
<1>3. FileFrame(type, t).type = type /\ FileFrame(type, t).t = t
  BY DEF FileFrame
<1>4. CASE Valid(FileFrame(type, t))
  <2>1. /\ ~agentDone /\ framesToAgent' = Tail(framesToAgent) /\ UNCHANGED <<agentDone, parentDone, kid>>
        /\ \/ type = "open" /\ HandleFileOpen(t)
           \/ type = "data" /\ HandleFileData(t)
           \/ type = "window" /\ HandleFileWindow(t)
           \/ type = "close" /\ HandleFileClose(t)
           \/ type = "error" /\ HandleFileError(t)
    BY <1>2, <1>3, <1>4 DEF DispatchFile
  <2>2. UNCHANGED toCore \/ \E f : AgentWrites(f)
    BY <2>1 DEF HandleFileOpen, OpenUpload, OpenDownload, RefuseFile, HandleFileData, HandleFileWindow,
         HandleFileClose, HandleFileError
  <2>3. EndsStayClosed
    BY <2>1, <2>2 DEF EndsStayClosed, FileFlags, AgentWrites
  <2>4. \A x \in Transfers \ {t} : agentKid'[x] = agentKid[x]
    BY <2>1 DEF FileTypes, HandleFileOpen, OpenUpload, OpenDownload, RefuseFile, HandleFileData, StageChunk,
         HandleFileWindow, HandleFileClose, HandleFileError
  <2>5. type # "open" => agentKid[t].state = "open"
    BY <1>2, <1>3, <1>4 DEF Valid
  <2>6. type = "close" => agentKid'[t].state = "closed"
    <3> SUFFICES ASSUME type = "close" PROVE agentKid'[t].state = "closed"
      OBVIOUS
    <3>1. PICK kept \in BOOLEAN : agentKid' = [agentKid EXCEPT ![t] = ClosedKid(@, kept)]
      BY <2>1 DEF HandleFileClose
    <3>2. agentKid \in [Transfers -> ServedKids] /\ agentKid[t] \in ServedKids
      BY DEF FileTypes
    <3>3. QED
      BY ONLY <3>1, <3>2, t \in Transfers DEF ClosedKid, ServedKids
  <2>7. QED
    BY <1>1, <1>2, <2>1, <2>3, <2>4, <2>5, <2>6 DEF FrameTaken
<1>5. CASE ~Valid(FileFrame(type, t))
  BY <1>2, <1>5, AgentReturnsEffects DEF DispatchFile
<1>6. QED
  BY <1>4, <1>5

\* What any step does.
LEMMA FileEffects ==
    ASSUME FileTypes, FileFlags, TransferNext \/ UNCHANGED transferVars
    PROVE  /\ EndsStayClosed
           /\ \/ NoneOpens
              \/ \E t \in Transfers : StreamAsked(t)
              \/ \E type \in {"open", "data", "window", "close", "error"}, t \in Transfers : FrameTaken(type, t)
<1>1. CASE \E t \in Transfers : FileCallerStep(t) \/ ForwarderStep(t) \/ ForwardFails(t)
  BY <1>1, CallerEffects, ForwarderEffects
<1>2. CASE \E t \in Transfers : FileUserStep(t)
  BY <1>2, UserEffects
<1>3. CASE FileMonitorEnds \/ ParentEnds
  BY <1>3, FinishEffects DEF FileMonitorEnds, ParentEnds
<1>4. CASE AgentEnds
  BY <1>4, AgentReturnsEffects DEF AgentEnds
<1>5. CASE LocalFileAppears \/ UNCHANGED transferVars
  BY <1>5 DEF LocalFileAppears, transferVars, EndsStayClosed, NoneOpens, FileFlags, wires, endVars
<1>6. CASE CompleteSeen
  <2>1. EndsStayClosed
    BY <1>6 DEF CompleteSeen, EndsStayClosed, FileFlags, wires, endVars
  <2>2. UNCHANGED <<agentKid, framesToAgent>> /\ kid' = [kid EXCEPT ![Head(toCore).t].completing = TRUE]
    BY <1>6 DEF CompleteSeen, wires
  <2>3. \A t \in Transfers : kid'[t].state = kid[t].state
    BY <2>2 DEF FileTypes, ClientKids
  <2>4. QED
    BY <2>1, <2>2, <2>3 DEF NoneOpens
<1>7. QED
  BY <1>1, <1>2, <1>3, <1>4, <1>5, <1>6, MonitorEffects, DispatchEffects DEF TransferNext

\* What is smaller fits, too.
LEMMA Fits ==
    ASSUME NEW S, NEW T, S \subseteq T, IsFiniteSet(T), Cardinality(T) < FileStreamLimit
    PROVE  IsFiniteSet(S) /\ Cardinality(S) < FileStreamLimit
<1>1. IsFiniteSet(S) /\ Cardinality(S) <= Cardinality(T)
  BY FS_Subset
<1>2. Cardinality(S) \in Nat /\ Cardinality(T) \in Nat /\ FileStreamLimit \in Nat
  BY <1>1, FS_CardinalityType, FileTransferAssumption
<1>3. QED
  BY <1>1, <1>2

\* Where no stream becomes open there is room as before.
LEMMA RoomWhereNoneOpens == ASSUME FileInv, FileTypes', NoneOpens PROVE Room'
<1>1. framesToAgent \in Seq(ToAgentFrames) /\ Room /\ Len(framesToAgent) \in Nat
  BY LenProperties DEF FileInv, FileTypes
<1>2. IsFiniteSet(FileStreams)'
  <2>1. FileStreams' \subseteq FileStreams
    BY DEF NoneOpens, FileStreams
  <2>2. QED
    BY <1>1, <2>1, FS_Subset DEF Room
<1>3. ASSUME NEW i \in 1..Len(framesToAgent'), framesToAgent'[i].type = "open"
      PROVE  IsFiniteSet(OpenBy(i))' /\ Cardinality(OpenBy(i))' < FileStreamLimit
  <2>1. /\ i \in 1..Len(framesToAgent) /\ framesToAgent[i].type = "open"
        /\ Len(framesToAgent') \in Nat /\ Len(framesToAgent') >= Len(framesToAgent)
        /\ \A j \in 1..Len(framesToAgent) : framesToAgent'[j] = framesToAgent[j]
    <3>1. CASE framesToAgent' = framesToAgent
      BY <1>1, <1>3, <3>1
    <3>2. CASE framesToAgent' = <<>>
      BY <1>3, <3>2
    <3>3. CASE \E f \in ToAgentFrames : f.type # "open" /\ framesToAgent' = Append(framesToAgent, f)
      BY <1>1, <1>3, <3>3
    <3>4. QED
      BY <3>1, <3>2, <3>3 DEF NoneOpens
  <2>2. OpenBy(i)' \subseteq OpenBy(i)
    <3>1. SUFFICES ASSUME NEW t \in Transfers,
                          agentKid'[t].state = "open" \/ \E j \in Places(framesToAgent', "open", t) : j < i,
                          \A j \in Places(framesToAgent', "close", t) : j >= i
                   PROVE  /\ agentKid[t].state = "open" \/ \E j \in Places(framesToAgent, "open", t) : j < i
                          /\ \A j \in Places(framesToAgent, "close", t) : j >= i
      BY DEF OpenBy
    <3>2. \A j \in Places(framesToAgent, "close", t) : j >= i
      BY <1>1, <2>1, <3>1 DEF Places
    <3>3. CASE \E j \in Places(framesToAgent', "open", t) : j < i
      BY <1>1, <2>1, <3>2, <3>3 DEF Places
    <3>4. CASE agentKid'[t].state = "open"
      BY <3>2, <3>4 DEF NoneOpens
    <3>5. QED
      BY <3>1, <3>2, <3>3, <3>4
  <2>3. IsFiniteSet(OpenBy(i)) /\ Cardinality(OpenBy(i)) < FileStreamLimit
    BY <1>1, <2>1 DEF Room
  <2>4. QED
    BY <2>2, <2>3, Fits
<1>4. QED
  BY <1>2, <1>3 DEF Room

\* A stream is asked for where the Core has room: the streams that will be open at the agent when
\* it comes to the request are open in the Core.
LEMMA RoomWhenAsked == ASSUME FileInv, FileTypes', NEW t0 \in Transfers, StreamAsked(t0) PROVE Room'
<1>1. framesToAgent \in Seq(ToAgentFrames) /\ Room /\ Len(framesToAgent) \in Nat /\ FileTypes
  BY LenProperties DEF FileInv, FileTypes
<1>2. IsFiniteSet(FileStreams)'
  <2>1. FileStreams' \subseteq FileStreams \cup {t0}
    BY DEF StreamAsked, FileStreams
  <2>2. IsFiniteSet(FileStreams \cup {t0})
    BY <1>1, FS_AddElement DEF Room
  <2>3. QED
    BY <2>1, <2>2, FS_Subset
<1>3. ASSUME NEW i \in 1..Len(framesToAgent'), framesToAgent'[i].type = "open"
      PROVE  IsFiniteSet(OpenBy(i))' /\ Cardinality(OpenBy(i))' < FileStreamLimit
  <2>1. /\ agentKid' = agentKid /\ Len(framesToAgent') \in Nat /\ Len(framesToAgent') >= Len(framesToAgent)
        /\ \A j \in 1..Len(framesToAgent) : framesToAgent'[j] = framesToAgent[j]
        /\ i \in 1..Len(framesToAgent) \/ (~agentDone /\ i = Len(framesToAgent) + 1 /\ framesToAgent' = Append(framesToAgent, FileFrame("open", t0)))
    BY <1>1, <1>3 DEF StreamAsked
  <2>2. CASE i \in 1..Len(framesToAgent)
    <3>1. OpenBy(i)' \subseteq OpenBy(i)
      BY <1>1, <2>1, <2>2 DEF OpenBy, Places
    <3>2. IsFiniteSet(OpenBy(i)) /\ Cardinality(OpenBy(i)) < FileStreamLimit
      BY <1>1, <1>3, <2>1, <2>2 DEF Room
    <3>3. QED
      BY <3>1, <3>2, Fits
  <2>3. CASE ~agentDone /\ i = Len(framesToAgent) + 1
    <3>1. ASSUME NEW t \in OpenBy(i)' PROVE t \in FileStreams
      <4>1. /\ t \in Transfers
            /\ agentKid[t].state = "open" \/ \E j \in Places(framesToAgent', "open", t) : j < i
            /\ \A j \in Places(framesToAgent', "close", t) : j >= i
        BY <2>1 DEF OpenBy
      <4>2. Places(framesToAgent, "close", t) = {}
        BY <1>1, <2>1, <2>3, <4>1 DEF Places
      <4>3. SentToAgent("close", t) = 0
        BY <4>2, FS_EmptySet DEF SentToAgent, OnWire
      <4>4. agentKid[t].state = "open" \/ SentToAgent("open", t) > 0
        <5>1. ASSUME NEW j \in Places(framesToAgent', "open", t), j < i PROVE SentToAgent("open", t) > 0
          <6>1. j \in Places(framesToAgent, "open", t)
            BY <1>1, <2>1, <2>3, <5>1 DEF Places
          <6>2. QED
            BY <1>1, <6>1, OnWireIsNat, FS_EmptySet DEF SentToAgent, OnWire
        <5>2. QED
          BY <4>1, <5>1
      <4>5. EndsKnown(t)
        BY <4>1 DEF FileInv, FileSound
      <4>6. QED
        BY <2>3, <4>1, <4>3, <4>4, <4>5 DEF EndsKnown, FileStreams, StreamAsked
    <3>2. OpenBy(i)' \subseteq FileStreams
      BY <3>1
    <3>3. QED
      BY <1>1, <3>2, Fits DEF Room, StreamAsked
  <2>4. QED
    BY <2>1, <2>2, <2>3
<1>4. QED
  BY <1>2, <1>3 DEF Room

\* The dispatcher has taken a frame in: what it opened was asked for, and what it closed is not asked for again.
LEMMA RoomWhenTaken ==
    ASSUME FileInv, FileTypes', NEW type0, NEW t0 \in Transfers, FrameTaken(type0, t0)
    PROVE  Room'
<1>1. framesToAgent \in Seq(ToAgentFrames) /\ Room /\ Len(framesToAgent) \in Nat /\ FileTypes
  BY LenProperties DEF FileInv, FileTypes
<1>2. /\ framesToAgent # <<>> /\ Len(framesToAgent) >= 1 /\ framesToAgent[1] = FileFrame(type0, t0)
      /\ Len(framesToAgent') = Len(framesToAgent) - 1
      /\ \A j \in 1..Len(framesToAgent') : framesToAgent'[j] = framesToAgent[j + 1]
  BY <1>1, HeadTailProperties DEF FrameTaken
<1>3. IsFiniteSet(FileStreams)'
  BY <1>1 DEF Room, FrameTaken, FileStreams
<1>4. ASSUME NEW i \in 1..Len(framesToAgent'), framesToAgent'[i].type = "open"
      PROVE  IsFiniteSet(OpenBy(i))' /\ Cardinality(OpenBy(i))' < FileStreamLimit
  <2>1. i + 1 \in 1..Len(framesToAgent) /\ framesToAgent[i + 1].type = "open"
    BY <1>1, <1>2, <1>4
  <2>2. ASSUME NEW t \in OpenBy(i)' PROVE t \in OpenBy(i + 1)
    <3>1. /\ t \in Transfers
          /\ agentKid'[t].state = "open" \/ \E j \in Places(framesToAgent', "open", t) : j < i
          /\ \A j \in Places(framesToAgent', "close", t) : j >= i
      BY DEF OpenBy
    <3>2. ASSUME NEW j \in Places(framesToAgent', "open", t), j < i
          PROVE  j + 1 \in Places(framesToAgent, "open", t) /\ j + 1 < i + 1
      BY <1>1, <1>2, <1>4, <3>2 DEF Places
    <3>3. agentKid'[t].state = "open" => agentKid[t].state = "open" \/ \E j \in Places(framesToAgent, "open", t) : j < i + 1
      <4>1. CASE t = t0 /\ type0 = "open"
        <5>1. 1 \in Places(framesToAgent, "open", t) /\ 1 < i + 1
          BY <1>1, <1>2, <1>4, <4>1 DEF Places
        <5>2. QED
          BY <5>1
      <4>2. CASE ~(t = t0 /\ type0 = "open")
        BY <3>1, <4>2 DEF FrameTaken
      <4>3. QED
        BY <4>1, <4>2
    <3>4. ASSUME NEW j \in Places(framesToAgent, "close", t) PROVE j >= i + 1
      <4>1. CASE j = 1
        <5>1. t = t0 /\ type0 = "close"
          BY <1>2, <3>4, <4>1, FrameEqual DEF Places
        <5>2. agentKid[t].state = "open" /\ agentKid'[t].state # "open"
          BY <5>1 DEF FrameTaken
        <5>3. PICK k \in Places(framesToAgent', "open", t) : k < i
          BY <3>1, <5>2
        <5>4. k + 1 \in Places(framesToAgent, "open", t)
          BY <3>2, <5>3
        <5>5. SentToAgent("open", t) # 0
          BY <1>1, <5>4, OnWireIsNat, FS_EmptySet DEF SentToAgent, OnWire
        <5>6. Reached(t)
          BY <3>1 DEF FileInv, FileSound
        <5>7. QED
          BY <5>2, <5>5, <5>6 DEF Reached
      <4>2. CASE j # 1
        <5>1. j - 1 \in Places(framesToAgent', "close", t)
          BY <1>1, <1>2, <3>4, <4>2 DEF Places
        <5>2. j \in Nat /\ i \in Nat
          BY <1>1, <1>2, <1>4, <3>4 DEF Places
        <5>3. QED
          BY <3>1, <5>1, <5>2
      <4>3. QED
        BY <4>1, <4>2
    <3>5. agentKid[t].state = "open" \/ \E j \in Places(framesToAgent, "open", t) : j < i + 1
      BY <3>1, <3>2, <3>3
    <3>6. QED
      BY <3>1, <3>4, <3>5 DEF OpenBy
  <2>3. OpenBy(i)' \subseteq OpenBy(i + 1)
    BY <2>2
  <2>4. IsFiniteSet(OpenBy(i + 1)) /\ Cardinality(OpenBy(i + 1)) < FileStreamLimit
    BY <1>1, <2>1 DEF Room
  <2>5. QED
    BY <2>3, <2>4, Fits
<1>5. QED
  BY <1>3, <1>4 DEF Room

-----------------------------------------------------------------------------
(* The theorems on file transfers.                                          *)

\* The invariant holds at the start ...
LEMMA FileInvInit == ASSUME TransferInit PROVE FileInv
<1> USE DEF TransferInit
<1>1. FileTypes
  <2>1. framesToAgent \in Seq(ToAgentFrames) /\ toCore \in Seq(ToCoreFrames)
    OBVIOUS
  <2>2. /\ op \in [Transfers -> {"none", "reserved", "listed", "gone"}]
        /\ commit \in [Transfers -> CallSteps] /\ cancel \in [Transfers -> CallSteps]
    BY DEF CallSteps
  <2>3. kid \in [Transfers -> ClientKids]
    BY DEF ClientKids
  <2>4. stream \in [Transfers -> Progress]
    BY DEF Progress
  <2>5. agentKid \in [Transfers -> ServedKids]
    BY DEF ServedKids
  <2>6. QED
    BY <2>1, <2>2, <2>3, <2>4, <2>5 DEF FileTypes
<1>2. FileFlags /\ WiresClosed
  BY DEF FileFlags, WiresClosed
<1>3. Room
  <2>1. FileStreams = {}
    BY DEF FileStreams
  <2>2. QED
    BY <2>1, FS_EmptySet DEF Room
<1>4. \A type, t : SentToAgent(type, t) = 0 /\ SentToCore(type, t) = 0
  BY EmptyWire DEF SentToAgent, SentToCore
<1>5. \A t : DataThenClose(t) /\ DataThenComplete(t)
  BY EmptyWire DEF DataThenClose, DataThenComplete
<1>6. ASSUME NEW t \in Transfers
      PROVE  Reached(t) /\ EndsKnown(t) /\ (t \in Uploads => UploadSound(t)) /\ (t \in Downloads => DownloadSound(t))
  <2>1. /\ op[t] \in {"none", "gone"} /\ commit[t] = "idle" /\ cancel[t] = "idle"
        /\ stream[t].step = "idle" /\ stream[t].count = 0
        /\ kid[t].state = "none" /\ kid[t].accepted = FALSE /\ kid[t].credit = 0 /\ kid[t].queued = 0
        /\ agentKid[t].state = "none" /\ agentKid[t].credit = 0 /\ agentKid[t].chunks = 0
        /\ agentKid[t].stage = "none" /\ agentKid[t].forward = "none"
    OBVIOUS
  <2>2. Writing(t) = 0 /\ Forwarding(t) = 0
    BY <2>1 DEF Writing, Forwarding
  <2>3. FileWindow \in Nat /\ FileChunks \in Nat /\ FileWindow > 0 /\ FileChunks > 0
    BY FileTransferAssumption
  <2>4. Reached(t)
    BY ONLY <1>4, <2>1 DEF Reached
  <2>5. EndsKnown(t)
    BY <1>4, <2>1 DEF EndsKnown
  <2>6. UploadSound(t)
    BY ONLY <1>4, <1>5, <2>1, <2>2, <2>3 DEF UploadSound
  <2>7. DownloadSound(t)
    BY ONLY <1>4, <1>5, <2>1, <2>2, <2>3 DEF DownloadSound, AgentWindow, DownloadChunks
  <2>8. QED
    BY <2>4, <2>5, <2>6, <2>7
<1>7. QED
  BY <1>1, <1>2, <1>3, <1>6 DEF FileInv, FileSound

\* ... and after every step.
LEMMA FileInvNext == ASSUME FileInv, TransferNext \/ UNCHANGED transferVars PROVE FileInv'
<1>1. FileTypes' /\ FileSound'
  BY TransfersStaySound
<1>2. FileTypes /\ FileFlags /\ WiresClosed
  BY DEF FileInv
<1>3. /\ EndsStayClosed
      /\ \/ NoneOpens
         \/ \E t \in Transfers : StreamAsked(t)
         \/ \E type \in {"open", "data", "window", "close", "error"}, t \in Transfers : FrameTaken(type, t)
  BY <1>2, FileEffects
<1>4. FileFlags' /\ WiresClosed'
  BY <1>2, <1>3 DEF EndsStayClosed, WiresClosed, FileFlags
<1>5. Room'
  BY <1>1, <1>3, RoomWhereNoneOpens, RoomWhenAsked, RoomWhenTaken
<1>6. QED
  BY <1>1, <1>4, <1>5 DEF FileInv

\* The inductive invariant of file transfers.
THEOREM FileInvariant == TransferSpec => []FileInv
<1>1. TransferInit => FileInv
  BY FileInvInit
<1>2. FileInv /\ [TransferNext]_transferVars => FileInv'
  BY FileInvNext
<1>3. QED
  BY <1>1, <1>2, PTL DEF TransferSpec

\* The variables of the transfers keep their types, and no counter leaves its bounds: credit never
\* exceeds the receive window (consumeFileCredit), nor do the chunks the size of the file.
THEOREM TransferTypeCorrect == TransferSpec => []TransferTypeOK
<1>1. ASSUME FileInv PROVE TransferTypeOK
  <2>1. FileTypes /\ FileFlags
    BY <1>1 DEF FileInv
  <2>2. \A i \in 1..Len(framesToAgent) : framesToAgent[i].t \in Transfers
    <3>1. \A i \in 1..Len(framesToAgent) : framesToAgent[i] \in ToAgentFrames
      BY <2>1, ElementOfSeq DEF FileTypes
    <3>2. QED
      BY <3>1 DEF ToAgentFrames
  <2>3. \A i \in 1..Len(toCore) : toCore[i].t \in Transfers
    <3>1. \A i \in 1..Len(toCore) : toCore[i] \in ToCoreFrames
      BY <2>1, ElementOfSeq DEF FileTypes
    <3>2. QED
      BY <3>1 DEF ToCoreFrames
  <2>4. ASSUME NEW t \in Transfers
        PROVE  /\ kid[t] \in Kids
               /\ stream[t] \in [step : {"idle", "reading", "holding", "ended"}, count : 0..FileChunks]
               /\ agentKid[t] \in AgentKids
    <3>1. NumbersAt(t) /\ SoundTransfer(t)
      BY <1>1, Given
    <3>2. /\ kid[t].credit <= FileWindow /\ kid[t].queued <= FileWindow /\ stream[t].count <= FileChunks
          /\ agentKid[t].credit <= FileWindow /\ agentKid[t].chunks <= FileChunks
      <4>1. Writing(t) \in {0, 1} /\ Forwarding(t) \in {0, 1}
        BY DEF Writing, Forwarding
      <4>2. CASE t \in Uploads
        <5>1. UploadSound(t)
          BY <3>1, <4>2 DEF SoundTransfer
        <5>2. QED
          BY ONLY <3>1, <4>1, <5>1 DEF NumbersAt, UploadSound
      <4>3. CASE t \in Downloads
        <5>1. DownloadSound(t)
          BY <3>1, <4>3 DEF SoundTransfer
        <5>2. QED
          BY ONLY <3>1, <4>1, <5>1 DEF NumbersAt, DownloadSound, AgentWindow, DownloadChunks
      <4>4. QED
        BY <4>2, <4>3 DEF Transfers
    <3>3. kid[t] \in ClientKids /\ stream[t] \in Progress /\ agentKid[t] \in ServedKids
      BY <2>1 DEF FileTypes
    <3>4. FileWindow \in Nat /\ FileChunks \in Nat
      BY <3>1 DEF NumbersAt
    <3>5. kid[t] \in Kids
      BY ONLY <3>2, <3>3, <3>4 DEF ClientKids, Kids
    <3>6. stream[t] \in [step : {"idle", "reading", "holding", "ended"}, count : 0..FileChunks]
      BY ONLY <3>2, <3>3, <3>4 DEF Progress
    <3>7. agentKid[t] \in AgentKids
      BY ONLY <3>2, <3>3, <3>4 DEF ServedKids, AgentKids
    <3>8. QED
      BY <3>5, <3>6, <3>7
  <2>5. parentDone \in BOOLEAN /\ agentDone \in BOOLEAN
    BY <2>1 DEF FileFlags
  <2>6. QED
    BY <2>1, <2>2, <2>3, <2>4, <2>5 DEF FileTypes, TransferTypeOK
<1>2. QED
  BY <1>1, FileInvariant, PTL

\* However an upload ends, once its child is gone its staging file is, unless the file system would not remove
\* it: every path of typedFileServer ends in closeChild or CloseAll, or in a failed Write or Commit.
THEOREM StagesRemoved == TransferSpec => []NoStageLeft
<1>1. FileInv => NoStageLeft
  BY DEF FileInv, FileSound, EndsKnown, NoStageLeft, Transfers
<1>2. QED
  BY <1>1, FileInvariant, PTL

\* The limits on streams, the windows of downloads and the size of a complete one agree at both ends
\* (openFileStream and openChild; Read and forwardDownload; handleFileClose).
THEOREM FileEndsAgree == TransferSpec => []EndsAgree
<1>1. ASSUME FileInv PROVE AgentHasRoom
  <2>1. SUFFICES ASSUME framesToAgent # <<>>, Head(framesToAgent).type = "open"
                 PROVE  Cardinality(ActiveFiles) < FileStreamLimit
    BY DEF AgentHasRoom
  <2>2. 1 \in 1..Len(framesToAgent) /\ framesToAgent[1].type = "open"
    BY <1>1, <2>1 DEF FileInv, FileTypes
  <2>3. ActiveFiles \subseteq OpenBy(1)
    BY DEF ActiveFiles, OpenBy, Places
  <2>4. QED
    BY <1>1, <2>2, <2>3, Fits DEF FileInv, Room
<1>2. ASSUME FileInv PROVE DownloadCreditConserved
  <2>1. SUFFICES ASSUME NEW d \in Downloads,
                        ~parentDone /\ ~agentDone /\ kid[d].state = "open" /\ agentKid[d].state = "open"
                 PROVE  FileWindow = agentKid[d].credit + kid[d].queued + SentToCore("data", d)
                                     + SentToAgent("window", d) + Forwarding(d) + Writing(d)
    BY DEF DownloadCreditConserved, SentToCore, SentToAgent, OnWire, Places, Forwarding, Writing
  <2>2. NumbersAt(d) /\ DownloadSound(d)
    BY <1>2, Given DEF SoundTransfer, Transfers
  <2>3. Writing(d) \in {0, 1} /\ Forwarding(d) \in {0, 1}
    BY DEF Writing, Forwarding
  <2>4. AgentWindow(d) = FileWindow
    BY ONLY <2>1, <2>2 DEF DownloadSound
  <2>5. QED
    BY ONLY <2>2, <2>3, <2>4 DEF NumbersAt, AgentWindow
<1>3. FileInv => CompleteIsWhole
  BY DEF FileInv, FileSound, DownloadSound, CompleteIsWhole, Transfers
<1>4. FileInv => EndsAgree
  BY <1>1, <1>2, <1>3 DEF EndsAgree
<1>5. QED
  BY <1>4, FileInvariant, PTL

\* A commit never replaces what is at the destination, and publishes exactly the chunks the Core had
\* sent before its close (FileUpload.Commit).
THEOREM UploadsPublishedWhole == TransferSpec => PublishedWhole
<1> DEFINE Whole == /\ destination = NoTransfer
                    /\ destination' \in Uploads =>
                          LET u == destination' IN
                          /\ agentKid[u].sized => agentKid[u].chunks = FileChunks
                          /\ agentKid[u].chunks = stream[u].count
<1>1. ASSUME FileInv, TransferNext, destination' # destination PROVE Whole
  <2>1. LocalFileAppears \/ DispatchFile
    BY <1>1 DEF TransferNext, FileCallerStep, OpenReturns, WatchOperation, WriteChunk, TakeChunk, ReturnCredit,
         ReadEnds,
         Commit, CancelFile, CommitReturns, CancelReturns, FileUserStep, Open, OpenTimesOut, TakeSendCredit, BeginRead,
         BeginCommit, BeginCancel, CallTimesOut, ForwarderStep, ForwardRead, ForwardWrite, ForwardComplete, ForwardFails,
         CompleteSeen, FileMonitor, FileMonitorEnds, ParentEnds, AgentEnds
  <2>2. CASE LocalFileAppears
    BY <2>2, FileTransferAssumption DEF LocalFileAppears, Transfers
  <2>3. CASE DispatchFile
    <3>1. /\ framesToAgent # <<>> /\ framesToAgent' = Tail(framesToAgent) /\ ~agentDone
          /\ Head(framesToAgent).type = "close" /\ Valid(Head(framesToAgent)) /\ HandleFileClose(Head(framesToAgent).t)
      BY <1>1, <2>3 DEF DispatchFile, HandleFileOpen, HandleFileData, HandleFileWindow, HandleFileError
    <3>2. PICK u : u = Head(framesToAgent).t
      OBVIOUS
    <3>3. u \in Uploads /\ CanPublish(u) /\ destination' = u /\ u \in Transfers /\ agentKid[u].state = "open"
      BY <1>1, <3>1, <3>2 DEF HandleFileClose, Valid, Transfers
    <3>4. Head(framesToAgent) = FileFrame("close", u)
      <4>1. Head(framesToAgent) \in ToAgentFrames
        BY <1>1, <3>1, HeadTailProperties DEF FileInv, FileTypes
      <4>2. QED
        BY <3>1, <3>2, <4>1 DEF ToAgentFrames, FileFrame
    <3>5. NumbersAt(u) /\ UploadSound(u) /\ FileTypes
      BY <1>1, <3>3, Given DEF SoundTransfer
    <3>6. AgentLess("close", u)
      BY <3>1, <3>4, <3>5, AgentReading
    <3>7. SentToAgent("close", u) > 0 /\ SentToAgent("data", u) = 0
      BY ONLY <3>5, <3>6 DEF AgentLess, UploadSound
    <3>8. agentKid[u].chunks = stream[u].count
      BY ONLY <3>1, <3>3, <3>5, <3>7 DEF NumbersAt, UploadSound
    <3>9. QED
      BY <3>3, <3>8 DEF CanPublish
  <2>4. QED
    BY <2>1, <2>2, <2>3
<1>2. FileInv /\ [TransferNext]_transferVars => [Whole]_destination
  BY <1>1 DEF transferVars
<1>3. QED
  BY <1>2, FileInvariant, PTL DEF TransferSpec, PublishedWhole

=============================================================================
