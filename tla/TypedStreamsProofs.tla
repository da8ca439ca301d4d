------------------------- MODULE TypedStreamsProofs -------------------------
(***************************************************************************)
(* Proofs about TypedStreams, for any number of streams, any limits, any   *)
(* windows and chunk sizes and socket buffers of any size.                 *)
(***************************************************************************)
EXTENDS TypedStreams, FiniteSetTheorems, SequenceTheorems, TLAPS

-----------------------------------------------------------------------------
(* The inductive invariant.                                                 *)

\* The frames that are under way in a channel.
Under(channel) == {channel[k] : k \in DOMAIN channel}

\* The dispatcher works for a stream that it has reserved, while the session lasts.
Tasks ==
    task.step # "idle" =>
        /\ ~srvDone /\ task.id \in Ids
        /\ task.step = "starting" => server[task.id].state = "opening"
        /\ task.step # "starting" => server[task.id].state \in {"open", "closed"}

\* An ID is used once it is allocated, and a client that is done has no streams.
Allocated ==
    /\ \A i \in Ids : i \in streams \/ opener[i] # "none" \/ server[i].state # "none" => i < nextStream
    /\ \A f \in Under(toServer) : f.type = "open" => f.id < nextStream
    /\ cliDone => streams = {}

\* Nothing of a stream reaches the client before its StreamAccepted is written.
Unanswered(i) ==
    server[i].state \in {"none", "opening"} \/ (task.step = "accepting" /\ task.id = i)

Answers ==
    /\ \A i \in Ids : Unanswered(i) =>
          ~child[i].accepted /\ forwarder[i].step = "none" /\ waiter[i] = "none"
    /\ \A f \in Under(toClient) : ~Unanswered(f.id)

\* No caller uses a stream before the client has taken in its StreamAccepted, so
\* nothing of it but StreamOpen reaches the server, which returns no credit for it.
InputTask(i) == IF task.step \in {"writing", "updating"} /\ task.id = i THEN task.n ELSE 0

Unaccepted ==
    /\ \A i \in Ids : ~child[i].accepted =>
          /\ opener[i] # "open" /\ reader[i].step = "idle" /\ writer[i] = 0
          /\ child[i].send = 0 /\ child[i].queue = 0
          /\ ~(task.step \in {"writing", "updating"} /\ task.id = i)
    /\ \A f \in Under(toServer) : f.type \in {"data", "window"} => child[f.id].accepted
    /\ \A f \in Under(toClient) : f.type = "window" => child[f.id].accepted

\* A forwarder has taken credit only for what it is sending.
Chunks == \A i \in Ids : forwarder[i].step # "sending" => forwarder[i].chunk = 0

\* The client's window, its buffer and what a reader took.
Taken(i) == IF reader[i].step \in {"updating", "crediting"} THEN reader[i].n ELSE 0

Buffered ==
    \A i \in Ids : LET held == child[i].recv + child[i].queue + Taken(i)
                   IN  held <= Window /\ (~cliDone => held = Window)

\* The server's window and the input it is working on; and the credit of the
\* writer, wherever it is.
Received ==
    \A i \in Ids : LET held == server[i].recv + InputTask(i)
                   IN  held <= Window /\ (server[i].state = "open" => held = Window)

InputCredit ==
    \A i \in Ids :
        child[i].send + writer[i] + InFlight(toServer, "data", i) + InputTask(i)
        + InFlight(toClient, "window", i) <= Window

StreamInv ==
    /\ TypeOK /\ Tasks /\ Allocated /\ Answers /\ Unaccepted /\ Chunks
    /\ SlotsExact /\ NoOrphanProcess
    /\ Buffered /\ Received /\ InputCredit /\ OutputCreditConserved

\* All of it but the types of the frames and what the dispatcher does.
Windows ==
    /\ ClientTypeOK /\ ServerTypeOK /\ Allocated /\ Answers /\ Unaccepted /\ Chunks
    /\ SlotsExact /\ NoOrphanProcess
    /\ Buffered /\ Received /\ InputCredit /\ OutputCreditConserved

-----------------------------------------------------------------------------
(* What is under way in a channel.                                          *)

\* The bytes of stream i that one frame carries.
Carried(f, type, i) == IF f.type = type /\ f.id = i THEN f.n ELSE 0

BytesAt(k, f, type, i) ==
    {p \in {k} \X (1..Window) : f.type = type /\ f.id = i /\ p[2] <= f.n}

\* The bytes of a frame in the k-th place of a channel are as many as it carries.
LEMMA FrameBytes ==
    ASSUME NEW f \in Frames, NEW k \in Nat, NEW type, NEW i
    PROVE  IsFiniteSet(BytesAt(k, f, type, i)) /\ Cardinality(BytesAt(k, f, type, i)) = Carried(f, type, i)
<1> DEFINE own == BytesAt(k, f, type, i)
           m == Carried(f, type, i)
<1>1. Window \in Nat /\ f.n \in 0..Window /\ m \in 0..Window
  BY TypedStreamsAssumption DEF Frames, Carried
<1>2. IsFiniteSet(1..m) /\ Cardinality(1..m) = m
  BY <1>1, FS_Interval
<1>3. own = {k} \X (1..m)
  BY <1>1 DEF Carried, BytesAt
<1>4. ExistsBijection(1..m, own)
  <2> DEFINE g == [b \in 1..m |-> <<k, b>>]
  <2>1. g \in Injection(1..m, own)
    BY <1>3 DEF Injection, IsInjective
  <2>2. g \in Surjection(1..m, own)
    BY <1>3 DEF Surjection
  <2>3. QED
    BY <2>1, <2>2 DEF ExistsBijection, Bijection
<1>5. QED
  BY <1>2, <1>4, FS_Bijection

\* A channel has finitely many bytes under way, and an empty one none.
LEMMA InFlightIsNat ==
    ASSUME NEW c \in Seq(Frames), NEW type, NEW i
    PROVE  IsFiniteSet(Bytes(c, type, i)) /\ InFlight(c, type, i) \in Nat
<1>1. Len(c) \in Nat /\ Window \in Nat
  BY TypedStreamsAssumption, LenProperties
<1>2. IsFiniteSet(1..Len(c)) /\ IsFiniteSet(1..Window)
  BY <1>1, FS_Interval
<1>3. IsFiniteSet((1..Len(c)) \X (1..Window))
  BY <1>2, FS_Product
<1>4. Bytes(c, type, i) \in SUBSET ((1..Len(c)) \X (1..Window))
  BY DEF Bytes
<1>5. QED
  BY <1>3, <1>4, FS_Subset, FS_CardinalityType DEF InFlight

\* Nothing is under way in an empty channel.
LEMMA InFlightEmpty == \A type, i : InFlight(<<>>, type, i) = 0
<1>1. \A type, i : Bytes(<<>>, type, i) = {}
  BY DEF Bytes
<1>2. QED
  BY <1>1, FS_EmptySet DEF InFlight

\* A frame that is written adds what it carries.
LEMMA InFlightAppend ==
    ASSUME NEW c \in Seq(Frames), NEW f \in Frames, NEW type, NEW i
    PROVE  InFlight(Append(c, f), type, i) = InFlight(c, type, i) + Carried(f, type, i)
<1> DEFINE k == Len(c) + 1
           own == BytesAt(k, f, type, i)
           old == Bytes(c, type, i)
<1>1. Len(c) \in Nat /\ k \in Nat
  BY LenProperties
<1>2. /\ Len(Append(c, f)) = k
      /\ Append(c, f)[k] = f
      /\ \A j \in 1..Len(c) : Append(c, f)[j] = c[j]
  BY AppendProperties, LenProperties
<1>3. Bytes(Append(c, f), type, i) = old \cup own
  BY <1>1, <1>2 DEF Bytes, BytesAt
<1>4. old \cap own = {}
  BY <1>1 DEF Bytes, BytesAt
<1>5. IsFiniteSet(old) /\ InFlight(c, type, i) \in Nat
  BY InFlightIsNat
<1>6. IsFiniteSet(own) /\ Cardinality(own) = Carried(f, type, i)
  BY <1>1, FrameBytes
<1>7. Carried(f, type, i) \in Nat
  BY TypedStreamsAssumption DEF Carried, Frames
<1>8. Cardinality(old \cup own) = Cardinality(old) + Cardinality(own) - 0
  BY <1>4, <1>5, <1>6, FS_Union, FS_EmptySet
<1>9. QED
  BY <1>3, <1>5, <1>6, <1>7, <1>8 DEF InFlight

\* A frame that is read takes away what it carries.
LEMMA InFlightTail ==
    ASSUME NEW c \in Seq(Frames), c # <<>>, NEW type, NEW i
    PROVE  InFlight(c, type, i) = Carried(Head(c), type, i) + InFlight(Tail(c), type, i)
<1> DEFINE f == Head(c)
           own == BytesAt(1, f, type, i)
           rest == Bytes(Tail(c), type, i)
           later == {p \in Bytes(c, type, i) : p[1] # 1}
<1>1. Len(c) \in Nat /\ Len(c) >= 1 /\ f \in Frames /\ Tail(c) \in Seq(Frames) /\ f = c[1]
  BY HeadTailProperties, LenProperties, EmptySeq
<1>2. Len(Tail(c)) = Len(c) - 1 /\ \A j \in 1..(Len(c) - 1) : Tail(c)[j] = c[j + 1]
  BY <1>1, HeadTailProperties, LenProperties
<1>3. Bytes(c, type, i) = own \cup later /\ own \cap later = {}
  BY <1>1 DEF Bytes, BytesAt
<1>4. IsFiniteSet(own) /\ Cardinality(own) = Carried(f, type, i)
  BY <1>1, FrameBytes
<1>5. IsFiniteSet(rest) /\ Cardinality(rest) \in Nat
  BY <1>1, InFlightIsNat DEF InFlight
<1>6. ExistsBijection(rest, later)
  <2> DEFINE g == [p \in rest |-> <<p[1] + 1, p[2]>>]
  <2>1. \A p \in rest : p = <<p[1], p[2]>> /\ p[1] \in 1..(Len(c) - 1) /\ p[2] \in 1..Window
    BY <1>1, <1>2 DEF Bytes
  <2>2. \A p \in later : p = <<p[1], p[2]>> /\ p[1] \in 2..Len(c) /\ p[2] \in 1..Window
    BY <1>1 DEF Bytes
  <2>3. \A p \in rest : <<p[1] + 1, p[2]>> \in later
    BY <1>1, <1>2, <2>1 DEF Bytes
  <2>4. \A p \in later : <<p[1] - 1, p[2]>> \in rest
    BY <1>1, <1>2, <2>2 DEF Bytes
  <2>5. g \in Injection(rest, later)
    BY <2>1, <2>3 DEF Injection, IsInjective
  <2>6. ASSUME NEW q \in later PROVE \E p \in rest : g[p] = q
    <3>1. <<q[1] - 1, q[2]>> \in rest
      BY <2>4
    <3>2. g[<<q[1] - 1, q[2]>>] = <<(q[1] - 1) + 1, q[2]>>
      BY <3>1
    <3>3. <<(q[1] - 1) + 1, q[2]>> = q
      BY <2>2
    <3>4. QED
      BY <3>1, <3>2, <3>3
  <2>7. g \in Surjection(rest, later)
    BY <2>3, <2>6 DEF Surjection
  <2>8. QED
    BY <2>5, <2>7 DEF ExistsBijection, Bijection
<1>7. IsFiniteSet(later) /\ Cardinality(later) = Cardinality(rest)
  BY <1>5, <1>6, FS_Bijection
<1>8. Carried(f, type, i) \in Nat
  BY <1>1, TypedStreamsAssumption DEF Carried, Frames
<1>9. Cardinality(own \cup later) = Cardinality(own) + Cardinality(later) - 0
  BY <1>3, <1>4, <1>7, FS_Union, FS_EmptySet
<1>10. InFlight(c, type, i) = Cardinality(own \cup later) /\ InFlight(Tail(c), type, i) = Cardinality(rest)
  BY <1>3 DEF InFlight
<1> HIDE DEF f, own, rest, later
<1>11. InFlight(c, type, i) = Carried(f, type, i) + InFlight(Tail(c), type, i)
  BY <1>4, <1>5, <1>7, <1>8, <1>9, <1>10
<1>12. QED
  BY <1>11 DEF f

\* IDs are numbers, 0 is none, and there is one left if the counter is below the limit.
LEMMA IdFacts ==
    /\ Ids \subseteq Nat /\ 0 \notin Ids
    /\ ClientTypeOK => nextStream \in Nat
    /\ ClientTypeOK /\ nextStream < FirstId + MaxAllocated =>
          nextStream \in Ids /\ nextStream + 1 \in FirstId..(FirstId + MaxAllocated)
BY TypedStreamsAssumption DEF Ids, FirstId, ClientTypeOK

\* What is under way, after a frame was written, after one was read, and when it is dropped.
LEMMA UnderFrames ==
    /\ \A c \in Seq(Frames) : Under(c) \subseteq Frames
    /\ \A c \in Seq(Frames), f \in Frames : Append(c, f) \in Seq(Frames) /\ Under(Append(c, f)) = Under(c) \cup {f}
    /\ \A c \in Seq(Frames) : c # <<>> =>
          /\ Head(c) \in Frames /\ Head(c) \in Under(c)
          /\ Tail(c) \in Seq(Frames) /\ Under(Tail(c)) \subseteq Under(c)
    /\ <<>> \in Seq(Frames) /\ Under(<<>>) = {}
<1>1. ASSUME NEW c \in Seq(Frames) PROVE Under(c) \subseteq Frames
  BY ElementOfSeq, LenProperties DEF Under
<1>2. ASSUME NEW c \in Seq(Frames), NEW f \in Frames
      PROVE  Append(c, f) \in Seq(Frames) /\ Under(Append(c, f)) = Under(c) \cup {f}
  BY AppendProperties, LenProperties DEF Under
<1>3. ASSUME NEW c \in Seq(Frames), c # <<>>
      PROVE  /\ Head(c) \in Frames /\ Head(c) \in Under(c)
             /\ Tail(c) \in Seq(Frames) /\ Under(Tail(c)) \subseteq Under(c)
  <2>1. Len(c) \in Nat /\ Len(c) >= 1 /\ Head(c) = c[1] /\ DOMAIN c = 1..Len(c) /\ Tail(c) \in Seq(Frames)
    BY <1>3, HeadTailProperties, LenProperties, EmptySeq
  <2>2. DOMAIN Tail(c) = 1..(Len(c) - 1) /\ \A j \in 1..(Len(c) - 1) : Tail(c)[j] = c[j + 1]
    BY <1>3, <2>1, HeadTailProperties, LenProperties
  <2>3. QED
    BY <2>1, <2>2, <1>1 DEF Under
<1>4. <<>> \in Seq(Frames) /\ Under(<<>>) = {}
  BY DEF Under
<1>5. QED
  BY <1>1, <1>2, <1>3, <1>4

\* A frame a program writes is one.
LEMMA FrameFacts ==
    ASSUME NEW type \in FrameTypes, NEW i \in Ids, NEW n \in 0..Window
    PROVE  /\ Frame(type, i, n) \in Frames
           /\ Frame(type, i, n).type = type /\ Frame(type, i, n).id = i /\ Frame(type, i, n).n = n
BY DEF Frame, Frames

\* What the client's writes do to what is under way to the server.
LEMMA ClientSent ==
    ASSUME LinkTypeOK, NEW f \in Frames, ClientSends(f)
    PROVE  /\ toServer' \in Seq(Frames)
           /\ Under(toServer') \subseteq Under(toServer) \cup {f}
           /\ \A type, i : InFlight(toServer', type, i) =
                  InFlight(toServer, type, i) + IF srvDone THEN 0 ELSE Carried(f, type, i)
<1>1. toServer \in Seq(Frames) /\ \A type, i : InFlight(toServer, type, i) \in Nat
  BY InFlightIsNat DEF LinkTypeOK
<1>2. CASE srvDone
  BY <1>1, <1>2 DEF ClientSends
<1>3. CASE ~srvDone
  BY <1>1, <1>3, UnderFrames, InFlightAppend DEF ClientSends
<1>4. QED
  BY <1>2, <1>3

\* What the server's writes do to what is under way to the client.
LEMMA ServerSent ==
    ASSUME LinkTypeOK, NEW f \in Frames, ServerSends(f)
    PROVE  /\ toClient' \in Seq(Frames)
           /\ Under(toClient') \subseteq Under(toClient) \cup {f}
           /\ \A type, i : InFlight(toClient', type, i) =
                  InFlight(toClient, type, i) + IF cliDone THEN 0 ELSE Carried(f, type, i)
<1>1. toClient \in Seq(Frames) /\ \A type, i : InFlight(toClient, type, i) \in Nat
  BY InFlightIsNat DEF LinkTypeOK
<1>2. CASE cliDone
  BY <1>1, <1>2 DEF ServerSends
<1>3. CASE ~cliDone
  BY <1>1, <1>3, UnderFrames, InFlightAppend DEF ServerSends
<1>4. QED
  BY <1>2, <1>3

-----------------------------------------------------------------------------
(* The steps of the dispatcher and the monitor, one for each frame type.    *)

\* The session returns, whatever for.
Returns ==
    \E cause \in Causes, id \in Ids \cup {0} :
        /\ ~srvDone /\ task.step \notin {"starting", "writing"}
        /\ Return(cause, id)
        /\ UNCHANGED <<toClient, lost, clientVars, forwarder, waiter>>

\* The dispatcher takes f and turns to a step for stream i.
Takes(f, type, step, i, n) ==
    /\ ~srvDone /\ task.step = "idle" /\ toServer # <<>>
    /\ f = Head(toServer) /\ f.type = type
    /\ Dispatch(step, i, n)
    /\ UNCHANGED <<toClient, lost, ended, srvDone, clientVars, forwarder, waiter>>

TakesOpen(f) ==
    /\ Takes(f, "open", "starting", f.id, 0)
    /\ HasRoom(f.id)
    /\ server' = [server EXCEPT ![f.id].state = "opening"]
    /\ slots' = slots + 1

TakesData(f) ==
    /\ Takes(f, "data", "writing", f.id, f.n)
    /\ server[f.id].state = "open" /\ f.n <= server[f.id].recv
    /\ server' = [server EXCEPT ![f.id].recv = @ - f.n]
    /\ UNCHANGED slots

TakesWindow(f) ==
    /\ Takes(f, "window", "idle", 0, 0)
    /\ server[f.id].state = "open" /\ server[f.id].send <= MaxWindow - f.n
    /\ server' = [server EXCEPT ![f.id].send = @ + f.n]
    /\ UNCHANGED slots

TakesResize(f) ==
    /\ Takes(f, "resize", "idle", 0, 0)
    /\ UNCHANGED <<server, slots>>

TakesClosing(f) ==
    /\ f.type \in {"resize", "close"}
    /\ Takes(f, f.type, IF f.type = "resize" THEN "reporting" ELSE "acking", f.id, 0)
    /\ server[f.id].state = "open"
    /\ CloseEntry(f.id)

\* Every step of the dispatcher on a frame is one of those.
LEMMA HandleFrameCases ==
    ASSUME LinkTypeOK, HandleFrame \/ Disconnect \/ PolicyExpires
    PROVE  \/ Returns
           \/ \E f \in Frames :
                 TakesOpen(f) \/ TakesData(f) \/ TakesWindow(f) \/ TakesResize(f) \/ TakesClosing(f)
<1>1. CASE Disconnect
  BY <1>1 DEF Disconnect, Returns, Causes
<1>2. CASE PolicyExpires
  BY <1>2 DEF PolicyExpires, Returns, Causes
<1>3. CASE HandleFrame
  <2> DEFINE f == Head(toServer)
  <2>1. /\ ~srvDone /\ task.step = "idle" /\ toServer # <<>>
        /\ UNCHANGED <<toClient, lost, clientVars, forwarder, waiter>>
    BY <1>3 DEF HandleFrame
  <2>2. f \in Frames /\ f.id \in Ids
    BY <2>1, UnderFrames DEF LinkTypeOK, Frames
  <2>3. ASSUME Return("protocol", f.id) PROVE Returns
    BY <2>1, <2>2, <2>3 DEF Returns, Causes
  <2> HIDE DEF f
  <2>4. \/ f.type = "open" /\ HandleOpen(f.id)
        \/ f.type = "data" /\ HandleData(f.id, f.n)
        \/ f.type = "window" /\ HandleWindow(f.id, f.n)
        \/ f.type = "resize" /\ HandleResize(f.id)
        \/ f.type = "close" /\ HandleClose(f.id)
    BY <1>3 DEF HandleFrame, f
  <2>5. CASE f.type = "open" /\ HandleOpen(f.id)
    BY <2>1, <2>2, <2>3, <2>5 DEF HandleOpen, TakesOpen, Takes, f
  <2>6. CASE f.type = "data" /\ HandleData(f.id, f.n)
    BY <2>1, <2>2, <2>3, <2>6 DEF HandleData, TakesData, Takes, f
  <2>7. CASE f.type = "window" /\ HandleWindow(f.id, f.n)
    BY <2>1, <2>2, <2>3, <2>7 DEF HandleWindow, TakesWindow, Takes, f
  <2>8. CASE f.type = "resize" /\ HandleResize(f.id)
    BY <2>1, <2>2, <2>3, <2>8 DEF HandleResize, TakesResize, TakesClosing, Takes, f
  <2>9. CASE f.type = "close" /\ HandleClose(f.id)
    BY <2>1, <2>2, <2>3, <2>9 DEF HandleClose, TakesClosing, Takes, f
  <2>10. QED
    BY <2>4, <2>5, <2>6, <2>7, <2>8, <2>9
<1>4. QED
  BY <1>1, <1>2, <1>3

\* The parent ends at the client, and no caller is involved.
Finishes ==
    \E cause \in Causes, id \in Ids \cup {0} :
        /\ ~cliDone
        /\ Finish(cause, id)
        /\ UNCHANGED <<toServer, lost, nextStream, opener, reader, writer, closer, serverVars>>

\* The monitor takes f in.
Reads(f, type) ==
    /\ ~cliDone /\ toClient # <<>>
    /\ f = Head(toClient) /\ f.type = type /\ f.id \in streams
    /\ toClient' = Tail(toClient)
    /\ UNCHANGED <<cliDone, ended, toServer, lost, nextStream, opener, reader, writer, closer, serverVars>>

ReadsAccepted(f) ==
    /\ Reads(f, "accepted") /\ ~child[f.id].accepted
    /\ child' = [child EXCEPT ![f.id].accepted = TRUE, ![f.id].send = Window]
    /\ UNCHANGED streams

ReadsData(f) ==
    /\ Reads(f, "data") /\ child[f.id].accepted /\ f.n <= child[f.id].recv
    /\ child' = [child EXCEPT ![f.id].recv = @ - f.n, ![f.id].queue = @ + f.n]
    /\ UNCHANGED streams

ReadsWindow(f) ==
    /\ Reads(f, "window") /\ child[f.id].accepted /\ f.n <= MaxWindow - child[f.id].send
    /\ child' = [child EXCEPT ![f.id].send = @ + f.n]
    /\ UNCHANGED streams

ReadsEnd(f) ==
    /\ f.type \in {"close", "error"} /\ Reads(f, f.type)
    /\ child' = [child EXCEPT ![f.id].done = TRUE]
    /\ streams' = streams \ {f.id}

\* Every step of the monitor is one of those.
LEMMA MonitorCases ==
    ASSUME LinkTypeOK, Monitor \/ MonitorEnds \/ CloseParent
    PROVE  \/ Finishes
           \/ \E f \in Frames : ReadsAccepted(f) \/ ReadsData(f) \/ ReadsWindow(f) \/ ReadsEnd(f)
<1>1. CASE MonitorEnds \/ CloseParent
  BY <1>1 DEF MonitorEnds, CloseParent, Finishes, Causes
<1>2. CASE Monitor
  <2> DEFINE f == Head(toClient)
  <2>1. /\ ~cliDone /\ toClient # <<>>
        /\ UNCHANGED <<toServer, lost, nextStream, opener, reader, writer, closer, serverVars>>
    BY <1>2 DEF Monitor
  <2>2. f \in Frames /\ f.id \in Ids /\ f.type \in FrameTypes
    BY <2>1, UnderFrames DEF LinkTypeOK, Frames
  <2>3. CASE ~Accepts(f)
    BY <1>2, <2>1, <2>2, <2>3 DEF Monitor, Finishes, Causes
  <2>4. CASE Accepts(f)
    <3>1. /\ child' = Applied(f)
          /\ streams' = IF f.type \in {"close", "error"} THEN streams \ {f.id} ELSE streams
          /\ toClient' = Tail(toClient)
          /\ UNCHANGED <<cliDone, ended>>
      BY <1>2, <2>4 DEF Monitor
    <3>2. f = Head(toClient)
      OBVIOUS
    <3> HIDE DEF f
    <3>3. f.type \in {"accepted", "data", "window", "close", "error"}
      BY <2>2, <2>4 DEF Accepts, FrameTypes
    <3>4. CASE f.type = "accepted"
      BY <2>1, <2>2, <2>4, <3>1, <3>2, <3>4 DEF Accepts, Applied, ReadsAccepted, Reads
    <3>5. CASE f.type = "data"
      BY <2>1, <2>2, <2>4, <3>1, <3>2, <3>5 DEF Accepts, AcceptsData, Applied, ReadsData, Reads
    <3>6. CASE f.type = "window"
      BY <2>1, <2>2, <2>4, <3>1, <3>2, <3>6 DEF Accepts, Applied, ReadsWindow, Reads
    <3>7. CASE f.type \in {"close", "error"}
      BY <2>1, <2>2, <2>4, <3>1, <3>2, <3>7 DEF Accepts, Applied, ReadsEnd, Reads
    <3>8. QED
      BY <3>3, <3>4, <3>5, <3>6, <3>7
  <2>5. QED
    BY <2>3, <2>4
<1>3. QED
  BY <1>1, <1>2

-----------------------------------------------------------------------------
(* The slots of the server.                                                 *)

\* Streams that hold a slot, if the entries are s.
Holders(s) == {i \in Ids : s[i].state \in {"opening", "open"}}

\* There are finitely many, so a stream that opens adds one and one that closes takes one away.
LEMMA HoldersCounted ==
    /\ IsFiniteSet(Ids)
    /\ \A s : IsFiniteSet(Holders(s)) /\ Cardinality(Holders(s)) \in Nat
    /\ \A s, i : i \in Holders(s) =>
          /\ Cardinality(Holders(s) \ {i}) = Cardinality(Holders(s)) - 1
          /\ Cardinality(Holders(s)) >= 1
    /\ \A s, i : i \notin Holders(s) => Cardinality(Holders(s) \cup {i}) = Cardinality(Holders(s)) + 1
<1>1. IsFiniteSet(Ids)
  BY TypedStreamsAssumption, FS_Interval DEF Ids, FirstId
<1>2. \A s : Holders(s) \in SUBSET Ids
  BY DEF Holders
<1>3. \A s : IsFiniteSet(Holders(s)) /\ Cardinality(Holders(s)) \in Nat
  BY <1>1, <1>2, FS_Subset, FS_CardinalityType
<1>4. ASSUME NEW s, NEW i, i \in Holders(s)
      PROVE  Cardinality(Holders(s) \ {i}) = Cardinality(Holders(s)) - 1 /\ Cardinality(Holders(s)) >= 1
  <2>1. Cardinality(Holders(s) \ {i}) = Cardinality(Holders(s)) - 1
    BY <1>3, <1>4, FS_RemoveElement
  <2>2. Cardinality(Holders(s) \ {i}) \in Nat
    BY <1>3, FS_RemoveElement, FS_CardinalityType
  <2>3. QED
    BY <1>3, <2>1, <2>2
<1>5. \A s, i : i \notin Holders(s) => Cardinality(Holders(s) \cup {i}) = Cardinality(Holders(s)) + 1
  BY <1>3, FS_AddElement
<1>6. QED
  BY <1>1, <1>3, <1>4, <1>5

\* A stream that holds a slot is counted.
LEMMA SlotsPositive ==
    SlotsExact => \A i \in Ids : server[i].state \in {"opening", "open"} => slots >= 1
BY HoldersCounted DEF SlotsExact, Holders

-----------------------------------------------------------------------------
(* What steps do to one stream, one window and one channel.                 *)

\* The child of stream i, and no other, gets new windows.
ChildSet(i, accepted, send, recv, queue) ==
    /\ child' \in [Ids -> Children]
    /\ \A j \in Ids \ {i} : child'[j] = child[j]
    /\ child'[i].accepted = accepted /\ child'[i].send = send
    /\ child'[i].recv = recv /\ child'[i].queue = queue

\* The children are marked done.
ChildrenDone ==
    /\ child' \in [Ids -> Children]
    /\ \A j \in Ids : /\ child'[j].accepted = child[j].accepted /\ child'[j].send = child[j].send
                      /\ child'[j].recv = child[j].recv /\ child'[j].queue = child[j].queue

\* The entry of stream i, and no other, changes.
EntrySet(i, state, pty, send, recv) ==
    /\ server' \in [Ids -> Entries]
    /\ \A j \in Ids \ {i} : server'[j] = server[j]
    /\ server'[i].state = state /\ server'[i].pty = pty
    /\ server'[i].send = send /\ server'[i].recv = recv

\* Every entry is closed with its process.
EntriesClosed ==
    /\ server' \in [Ids -> Entries]
    /\ \A j \in Ids : /\ server'[j].state \in {"none", "closed"} /\ server'[j].pty \in {"none", "closed"}
                      /\ server'[j].state = "none" <=> server[j].state = "none"
                      /\ server'[j].recv = server[j].recv

\* The reader of stream i, and no other, moves; the forwarder of stream i.
Readers == [step : {"idle", "polling", "updating", "crediting"}, n : 0..Window]

ReaderSet(i, step, n) ==
    /\ reader' \in [Ids -> Readers]
    /\ \A j \in Ids \ {i} : reader'[j] = reader[j]
    /\ reader'[i].step = step /\ reader'[i].n = n

Forwarders == [step : {"none", "reading", "holding", "sending", "stopped"}, hold : 0..Window, chunk : 0..Window]

ForwarderSet(i, step, hold, chunk) ==
    /\ forwarder' \in [Ids -> Forwarders]
    /\ \A j \in Ids \ {i} : forwarder'[j] = forwarder[j]
    /\ forwarder'[i].step = step /\ forwarder'[i].hold = hold /\ forwarder'[i].chunk = chunk

\* One place of a function gets a value, and no other.
Put(old, new, i, v) ==
    /\ new = [old EXCEPT ![i] = v]
    /\ new[i] = v /\ \A j \in Ids \ {i} : new[j] = old[j]

\* A frame was written to a channel, unless the other end is gone.
SentToServer(type, i, n) ==
    /\ \A f \in Under(toServer') : f \in Under(toServer) \/ (f.type = type /\ f.id = i)
    /\ \A t, j : InFlight(toServer', t, j) =
          InFlight(toServer, t, j) + IF ~srvDone /\ t = type /\ j = i THEN n ELSE 0

SentToClient(type, i, n) ==
    /\ \A f \in Under(toClient') : f \in Under(toClient) \/ (f.type = type /\ f.id = i)
    /\ \A t, j : InFlight(toClient', t, j) =
          InFlight(toClient, t, j) + IF ~cliDone /\ t = type /\ j = i THEN n ELSE 0

\* A frame was read from a channel.
ReadByServer(f) ==
    /\ f \in Under(toServer) /\ Under(toServer') \subseteq Under(toServer)
    /\ \A t, j : InFlight(toServer, t, j) =
          InFlight(toServer', t, j) + IF f.type = t /\ f.id = j THEN f.n ELSE 0
    /\ \A t, j : InFlight(toServer', t, j) \in Nat

ReadByClient(f) ==
    /\ f \in Under(toClient) /\ Under(toClient') \subseteq Under(toClient)
    /\ \A t, j : InFlight(toClient, t, j) =
          InFlight(toClient', t, j) + IF f.type = t /\ f.id = j THEN f.n ELSE 0
    /\ \A t, j : InFlight(toClient', t, j) \in Nat

\* Frames of the client reach what is under way to the server.
LEMMA ClientSending ==
    ASSUME LinkTypeOK, NEW type \in FrameTypes, NEW i \in Ids, NEW n \in 0..Window,
           ClientSends(Frame(type, i, n))
    PROVE  SentToServer(type, i, n)
<1>1. PICK f : f = Frame(type, i, n)
  OBVIOUS
<1>2. f \in Frames /\ f.type = type /\ f.id = i /\ f.n = n
  BY <1>1, FrameFacts
<1>3. ClientSends(f)
  BY <1>1
<1>4. QED
  BY <1>2, <1>3, ClientSent DEF SentToServer, Carried

\* Frames of the server reach what is under way to the client.
LEMMA ServerSending ==
    ASSUME LinkTypeOK, NEW type \in FrameTypes, NEW i \in Ids, NEW n \in 0..Window,
           ServerSends(Frame(type, i, n))
    PROVE  SentToClient(type, i, n)
<1>1. PICK f : f = Frame(type, i, n)
  OBVIOUS
<1>2. f \in Frames /\ f.type = type /\ f.id = i /\ f.n = n
  BY <1>1, FrameFacts
<1>3. ServerSends(f)
  BY <1>1
<1>4. QED
  BY <1>2, <1>3, ServerSent DEF SentToClient, Carried

\* The dispatcher reads a frame, which is under way no more.
LEMMA ServerReading ==
    ASSUME LinkTypeOK, toServer # <<>>, NEW f, f = Head(toServer), toServer' = Tail(toServer)
    PROVE  ReadByServer(f) /\ f \in Frames
<1>1. toServer \in Seq(Frames) /\ f \in Frames /\ Tail(toServer) \in Seq(Frames)
  BY UnderFrames DEF LinkTypeOK
<1>2. f \in Under(toServer) /\ Under(toServer') \subseteq Under(toServer)
  BY <1>1, UnderFrames
<1>3. \A t, j : InFlight(toServer, t, j) = Carried(f, t, j) + InFlight(toServer', t, j)
  BY <1>1, InFlightTail
<1>4. \A t, j : InFlight(toServer', t, j) \in Nat
  BY <1>1, InFlightIsNat
<1>5. f.n \in Nat
  BY <1>1, TypedStreamsAssumption DEF Frames
<1>6. QED
  BY <1>1, <1>2, <1>3, <1>4, <1>5 DEF ReadByServer, Carried

\* So does the monitor.
LEMMA ClientReading ==
    ASSUME LinkTypeOK, toClient # <<>>, NEW f, f = Head(toClient), toClient' = Tail(toClient)
    PROVE  ReadByClient(f) /\ f \in Frames
<1>1. toClient \in Seq(Frames) /\ f \in Frames /\ Tail(toClient) \in Seq(Frames)
  BY UnderFrames DEF LinkTypeOK
<1>2. f \in Under(toClient) /\ Under(toClient') \subseteq Under(toClient)
  BY <1>1, UnderFrames
<1>3. \A t, j : InFlight(toClient, t, j) = Carried(f, t, j) + InFlight(toClient', t, j)
  BY <1>1, InFlightTail
<1>4. \A t, j : InFlight(toClient', t, j) \in Nat
  BY <1>1, InFlightIsNat
<1>5. f.n \in Nat
  BY <1>1, TypedStreamsAssumption DEF Frames
<1>6. QED
  BY <1>1, <1>2, <1>3, <1>4, <1>5 DEF ReadByClient, Carried

\* The numbers of a state are natural numbers within their types.
Numbers ==
    /\ Window \in Nat /\ MaxWindow \in Nat /\ MaxChunk \in Nat /\ Window <= MaxWindow
    /\ \A j \in Ids :
          /\ child[j].send \in 0..MaxWindow /\ child[j].recv \in 0..Window /\ child[j].queue \in 0..Window
          /\ reader[j].n \in 0..Window /\ writer[j] \in 0..Window
          /\ server[j].send \in 0..MaxWindow /\ server[j].recv \in 0..MaxWindow
          /\ forwarder[j].hold \in 0..Window /\ forwarder[j].chunk \in 0..Window
    /\ task.n \in 0..Window
    /\ \A t, j : InFlight(toServer, t, j) \in Nat /\ InFlight(toClient, t, j) \in Nat

\* The types say so.
LEMMA NumbersHold == TypeOK => Numbers
<1> SUFFICES ASSUME TypeOK PROVE Numbers
  OBVIOUS
<1>1. \A j \in Ids : child[j].send \in 0..MaxWindow /\ child[j].recv \in 0..Window /\ child[j].queue \in 0..Window
  BY DEF TypeOK, ClientTypeOK, Children
<1>2. \A j \in Ids : reader[j].n \in 0..Window /\ writer[j] \in 0..Window
  BY DEF TypeOK, ClientTypeOK
<1>3. \A j \in Ids : server[j].send \in 0..MaxWindow /\ server[j].recv \in 0..MaxWindow
  BY DEF TypeOK, ServerTypeOK, Entries
<1>4. \A j \in Ids : forwarder[j].hold \in 0..Window /\ forwarder[j].chunk \in 0..Window
  BY DEF TypeOK, ServerTypeOK
<1>5. task.n \in 0..Window
  BY DEF TypeOK, ServerTypeOK
<1>6. \A t, j : InFlight(toServer, t, j) \in Nat /\ InFlight(toClient, t, j) \in Nat
  BY InFlightIsNat DEF TypeOK, LinkTypeOK
<1>7. QED
  BY <1>1, <1>2, <1>3, <1>4, <1>5, <1>6, TypedStreamsAssumption DEF Numbers

\* Setting one place of a function to a value of its type.
LEMMA PutPlace ==
    ASSUME NEW S, NEW c \in [Ids -> S], NEW i \in Ids, NEW v \in S
    PROVE  LET d == [c EXCEPT ![i] = v]
           IN  d \in [Ids -> S] /\ d[i] = v /\ \A j \in Ids \ {i} : d[j] = c[j]
OBVIOUS

\* Frames are for streams.
Addressed == \A f \in Under(toServer) \cup Under(toClient) : f.id \in Ids

\* The types say so.
LEMMA FramesAddressed == TypeOK => Addressed
<1> SUFFICES ASSUME TypeOK PROVE Addressed
  OBVIOUS
<1>1. Under(toServer) \subseteq Frames /\ Under(toClient) \subseteq Frames
  BY UnderFrames DEF TypeOK, LinkTypeOK
<1>2. \A f \in Frames : f.id \in Ids
  BY DEF Frames
<1>3. QED
  BY <1>1, <1>2 DEF Addressed

\* Nothing is under way of a stream that no frame is for.
LEMMA InFlightNone ==
    ASSUME NEW c \in Seq(Frames), NEW t, NEW j, \A f \in Under(c) : ~(f.type = t /\ f.id = j)
    PROVE  InFlight(c, t, j) = 0
<1>1. \A k \in 1..Len(c) : c[k] \in Under(c)
  BY LenProperties DEF Under
<1>2. Bytes(c, t, j) = {}
  BY <1>1 DEF Bytes
<1>3. QED
  BY <1>2, FS_EmptySet DEF InFlight

-----------------------------------------------------------------------------
(* The types of the frames, and what the dispatcher does.                   *)

\* Frames of both ends have the type of frames.
LEMMA LinkTypesStep == StreamInv /\ [Next]_vars => LinkTypeOK'
<1> SUFFICES ASSUME StreamInv, [Next]_vars PROVE LinkTypeOK'
  OBVIOUS
<1> USE TypedStreamsAssumption DEF StreamInv, TypeOK, vars, clientVars, serverVars, linkVars, LinkTypeOK,
            ClientTypeOK, ServerTypeOK, FrameTypes, Causes, OpenBoth, Idle
<1>1. ASSUME Allocate PROVE LinkTypeOK'
  BY <1>1 DEF Allocate
<1>2. ASSUME NEW i \in Ids, WriteOpen(i) PROVE LinkTypeOK'
  BY <1>2, UnderFrames, FrameFacts DEF WriteOpen, ClientSends
<1>3. ASSUME NEW i \in Ids, CancelOpen(i) PROVE LinkTypeOK'
  BY <1>3, UnderFrames DEF CancelOpen, Finish, End
<1>4. ASSUME NEW i \in Ids, OpenReturns(i) PROVE LinkTypeOK'
  BY <1>4 DEF OpenReturns
<1>5. ASSUME NEW i \in Ids, NEW n \in 1..Window, TakeOutput(i, n) PROVE LinkTypeOK'
  BY <1>5 DEF TakeOutput
<1>6. ASSUME NEW i \in Ids, EndRead(i) PROVE LinkTypeOK'
  BY <1>6 DEF EndRead
<1>7. ASSUME NEW i \in Ids, WriteUpdate(i) PROVE LinkTypeOK'
  BY <1>7, UnderFrames, FrameFacts DEF WriteUpdate, ClientSends
<1>8. ASSUME NEW i \in Ids, CreditOutput(i) PROVE LinkTypeOK'
  BY <1>8 DEF CreditOutput
<1>9. ASSUME NEW i \in Ids, WriteInput(i) PROVE LinkTypeOK'
  BY <1>9, UnderFrames, FrameFacts DEF WriteInput, ClientSends
<1>10. ASSUME NEW i \in Ids, WriteClose(i) PROVE LinkTypeOK'
  BY <1>10, UnderFrames, FrameFacts DEF WriteClose, ClientSends
<1>11. ASSUME NEW i \in Ids, CloseReturns(i) PROVE LinkTypeOK'
  BY <1>11 DEF CloseReturns
<1>12. ASSUME NEW i \in Ids, BeginRead(i) PROVE LinkTypeOK'
  BY <1>12 DEF BeginRead, Usable, Found
<1>13. ASSUME NEW i \in Ids, CancelUpdate(i) PROVE LinkTypeOK'
  <2>1. CASE cliDone
    BY <1>13, <2>1, UnderFrames DEF CancelUpdate, Finish, End
  <2>2. CASE ~cliDone
    BY <1>13, <2>2, UnderFrames DEF CancelUpdate, Finish, End
  <2>3. QED
    BY <2>1, <2>2
<1>14. ASSUME NEW i \in Ids, NEW n \in 1..Window, TakeCredit(i, n) PROVE LinkTypeOK'
  BY <1>14 DEF TakeCredit, Usable, Found, Lower
<1>15. ASSUME NEW i \in Ids, CancelWrite(i) PROVE LinkTypeOK'
  BY <1>15 DEF CancelWrite
<1>16. ASSUME NEW i \in Ids, ResizeTerminalStream(i) PROVE LinkTypeOK'
  BY <1>16, UnderFrames, FrameFacts DEF ResizeTerminalStream, Usable, Found, ClientSends
<1>17. ASSUME NEW i \in Ids, BeginClose(i) PROVE LinkTypeOK'
  BY <1>17 DEF BeginClose, Usable, Found
<1>18. ASSUME NEW i \in Ids, CancelClose(i) PROVE LinkTypeOK'
  <2>1. CASE cliDone
    BY <1>18, <2>1, UnderFrames DEF CancelClose, Finish, End
  <2>2. CASE ~cliDone
    BY <1>18, <2>2, UnderFrames DEF CancelClose, Finish, End
  <2>3. QED
    BY <2>1, <2>2
<1>19. ASSUME NEW i \in Ids, CloseTimesOut(i) PROVE LinkTypeOK'
  BY <1>19 DEF CloseTimesOut
<1>20. ASSUME Finishes PROVE LinkTypeOK'
  BY <1>20, UnderFrames DEF Finishes, Finish, End
<1>21. ASSUME NEW f \in Frames, ReadsAccepted(f) PROVE LinkTypeOK'
  BY <1>21, UnderFrames DEF ReadsAccepted, Reads
<1>22. ASSUME NEW f \in Frames, ReadsData(f) PROVE LinkTypeOK'
  BY <1>22, UnderFrames DEF ReadsData, Reads
<1>23. ASSUME NEW f \in Frames, ReadsWindow(f) PROVE LinkTypeOK'
  BY <1>23, UnderFrames DEF ReadsWindow, Reads
<1>24. ASSUME NEW f \in Frames, ReadsEnd(f) PROVE LinkTypeOK'
  BY <1>24, UnderFrames DEF ReadsEnd, Reads
<1>25. ASSUME Returns PROVE LinkTypeOK'
  <2>1. PICK cause \in Causes, id \in Ids \cup {0} : Return(cause, id)
    BY <1>25 DEF Returns
  <2>2. ended' \in [cause : Causes, id : Ids \cup {0}, open : SUBSET Ids]
    BY <2>1 DEF Return, End
  <2>3. QED
    BY <1>25, <2>1, <2>2, UnderFrames DEF Returns, Return
<1>26. ASSUME NEW f \in Frames, TakesOpen(f) PROVE LinkTypeOK'
  BY <1>26, UnderFrames DEF TakesOpen, Takes, Dispatch, HasRoom
<1>27. ASSUME NEW f \in Frames, TakesData(f) PROVE LinkTypeOK'
  BY <1>27, UnderFrames DEF TakesData, Takes, Dispatch
<1>28. ASSUME NEW f \in Frames, TakesWindow(f) PROVE LinkTypeOK'
  BY <1>28, UnderFrames DEF TakesWindow, Takes, Dispatch
<1>29. ASSUME NEW f \in Frames, TakesResize(f) PROVE LinkTypeOK'
  BY <1>29, UnderFrames DEF TakesResize, Takes, Dispatch
<1>30. ASSUME NEW f \in Frames, TakesClosing(f) PROVE LinkTypeOK'
  BY <1>30, UnderFrames DEF TakesClosing, Takes, Dispatch, CloseEntry
<1>31. ASSUME StartPTY PROVE LinkTypeOK'
  BY <1>31 DEF StartPTY
<1>32. ASSUME SendAccepted PROVE LinkTypeOK'
  <2>0. task.id \in Ids /\ "accepted" \in FrameTypes /\ 0 \in 0..Window
    BY <1>32 DEF SendAccepted, Tasks
  <2>1. Frame("accepted", task.id, 0) \in Frames
    BY <1>32, <2>0, FrameFacts DEF SendAccepted
  <2>2. toClient' \in Seq(Frames)
    <3>1. toClient' = IF cliDone THEN toClient ELSE Append(toClient, Frame("accepted", task.id, 0))
      BY <1>32 DEF SendAccepted, ServerSends
    <3>2. QED
      BY ONLY <2>1, <3>1, LinkTypeOK, UnderFrames DEF LinkTypeOK
  <2>3. QED
    BY <1>32, <2>2 DEF SendAccepted
<1>33. ASSUME SendUpdate PROVE LinkTypeOK'
  BY <1>33, UnderFrames, FrameFacts DEF SendUpdate, ServerSends, Tasks
<1>34. ASSUME SendAck PROVE LinkTypeOK'
  BY <1>34, UnderFrames, FrameFacts DEF SendAck, ServerSends, Tasks
<1>35. ASSUME SendError PROVE LinkTypeOK'
  BY <1>35, UnderFrames, FrameFacts DEF SendError, ServerSends, Tasks
<1>36. ASSUME PtyTakesInput PROVE LinkTypeOK'
  BY <1>36 DEF PtyTakesInput
<1>37. ASSUME PtyRefusesInput PROVE LinkTypeOK'
  BY <1>37 DEF PtyRefusesInput, CloseEntry
<1>38. ASSUME NEW i \in Ids, TakeOutputCredit(i) PROVE LinkTypeOK'
  BY <1>38 DEF TakeOutputCredit, Lower
<1>39. ASSUME NEW i \in Ids, SendOutput(i) PROVE LinkTypeOK'
  BY <1>39, UnderFrames, FrameFacts DEF SendOutput, ServerSends
<1>40. ASSUME NEW i \in Ids, StopForwarding(i) PROVE LinkTypeOK'
  BY <1>40 DEF StopForwarding
<1>41. ASSUME NEW i \in Ids, WaitReturns(i) PROVE LinkTypeOK'
  BY <1>41 DEF WaitReturns, CloseEntry
<1>42. ASSUME NEW i \in Ids, SendClose(i) PROVE LinkTypeOK'
  <2>1. Frame("close", i, 0) \in Frames
    BY <1>42, FrameFacts DEF SendClose
  <2>2. toClient' \in Seq(Frames)
    <3>1. IF srvDone THEN toClient' = toClient
           ELSE toClient' = IF cliDone THEN toClient ELSE Append(toClient, Frame("close", i, 0))
      BY <1>42 DEF SendClose, ServerSends
    <3>2. QED
      BY ONLY <2>1, <3>1, LinkTypeOK, UnderFrames DEF LinkTypeOK
  <2>3. QED
    BY <1>42, <2>2 DEF SendClose
<1>43. ASSUME NEW i \in Ids, ProcessExits(i) PROVE LinkTypeOK'
  BY <1>43 DEF ProcessExits
<1>44. ASSUME NEW i \in Ids, NEW n \in 1..Window, ReadPTY(i, n) PROVE LinkTypeOK'
  BY <1>44 DEF ReadPTY
<1>45. ASSUME LoseConnection PROVE LinkTypeOK'
  BY <1>45 DEF LoseConnection, End
<1>46. CASE UNCHANGED vars
  BY <1>46 DEF vars
<1>47. QED
  BY <1>1, <1>2, <1>3, <1>4, <1>5, <1>6, <1>7, <1>8, <1>9, <1>10, <1>11, <1>12, <1>13, <1>14, <1>15, <1>16, <1>17,
     <1>18, <1>19, <1>20, <1>21, <1>22, <1>23, <1>24, <1>25, <1>26, <1>27, <1>28, <1>29, <1>30, <1>31, <1>32, <1>33,
     <1>34, <1>35, <1>36, <1>37, <1>38, <1>39, <1>40, <1>41, <1>42, <1>43, <1>44, <1>45, <1>46, HandleFrameCases, MonitorCases
     DEF Next, ClientStep, ClientChoice, DispatcherStep, StreamStep

\* The dispatcher's streams are reserved.
LEMMA TasksStep == StreamInv /\ [Next]_vars => Tasks'
<1> SUFFICES ASSUME StreamInv, [Next]_vars PROVE Tasks'
  OBVIOUS
<1> USE TypedStreamsAssumption DEF StreamInv, TypeOK, vars, clientVars, serverVars, linkVars, ServerTypeOK, Entries,
            Idle, Tasks
<1>1. ASSUME Allocate PROVE Tasks'
  BY <1>1 DEF Allocate
<1>2. ASSUME NEW i \in Ids, WriteOpen(i) PROVE Tasks'
  BY <1>2 DEF WriteOpen
<1>3. ASSUME NEW i \in Ids, CancelOpen(i) PROVE Tasks'
  BY <1>3 DEF CancelOpen, Finish, End
<1>4. ASSUME NEW i \in Ids, OpenReturns(i) PROVE Tasks'
  BY <1>4 DEF OpenReturns
<1>5. ASSUME NEW i \in Ids, NEW n \in 1..Window, TakeOutput(i, n) PROVE Tasks'
  BY <1>5 DEF TakeOutput
<1>6. ASSUME NEW i \in Ids, EndRead(i) PROVE Tasks'
  BY <1>6 DEF EndRead
<1>7. ASSUME NEW i \in Ids, WriteUpdate(i) PROVE Tasks'
  BY <1>7 DEF WriteUpdate
<1>8. ASSUME NEW i \in Ids, CreditOutput(i) PROVE Tasks'
  BY <1>8 DEF CreditOutput
<1>9. ASSUME NEW i \in Ids, WriteInput(i) PROVE Tasks'
  BY <1>9 DEF WriteInput
<1>10. ASSUME NEW i \in Ids, WriteClose(i) PROVE Tasks'
  BY <1>10 DEF WriteClose
<1>11. ASSUME NEW i \in Ids, CloseReturns(i) PROVE Tasks'
  BY <1>11 DEF CloseReturns
<1>12. ASSUME NEW i \in Ids, BeginRead(i) PROVE Tasks'
  BY <1>12 DEF BeginRead, Usable, Found
<1>13. ASSUME NEW i \in Ids, CancelUpdate(i) PROVE Tasks'
  BY <1>13 DEF CancelUpdate, Finish, End
<1>14. ASSUME NEW i \in Ids, NEW n \in 1..Window, TakeCredit(i, n) PROVE Tasks'
  BY <1>14 DEF TakeCredit, Usable, Found, Lower
<1>15. ASSUME NEW i \in Ids, CancelWrite(i) PROVE Tasks'
  BY <1>15 DEF CancelWrite
<1>16. ASSUME NEW i \in Ids, ResizeTerminalStream(i) PROVE Tasks'
  BY <1>16 DEF ResizeTerminalStream, Usable, Found
<1>17. ASSUME NEW i \in Ids, BeginClose(i) PROVE Tasks'
  BY <1>17 DEF BeginClose, Usable, Found
<1>18. ASSUME NEW i \in Ids, CancelClose(i) PROVE Tasks'
  BY <1>18 DEF CancelClose, Finish, End
<1>19. ASSUME NEW i \in Ids, CloseTimesOut(i) PROVE Tasks'
  BY <1>19 DEF CloseTimesOut
<1>20. ASSUME Finishes PROVE Tasks'
  BY <1>20 DEF Finishes, Finish, End
<1>21. ASSUME NEW f \in Frames, ReadsAccepted(f) PROVE Tasks'
  BY <1>21 DEF ReadsAccepted, Reads, Frames
<1>22. ASSUME NEW f \in Frames, ReadsData(f) PROVE Tasks'
  BY <1>22 DEF ReadsData, Reads, Frames
<1>23. ASSUME NEW f \in Frames, ReadsWindow(f) PROVE Tasks'
  BY <1>23 DEF ReadsWindow, Reads, Frames
<1>24. ASSUME NEW f \in Frames, ReadsEnd(f) PROVE Tasks'
  BY <1>24 DEF ReadsEnd, Reads, Frames
<1>25. ASSUME Returns PROVE Tasks'
  BY <1>25 DEF Returns, Return
<1>26. ASSUME NEW f \in Frames, TakesOpen(f) PROVE Tasks'
  BY <1>26 DEF TakesOpen, Takes, Dispatch, HasRoom, Frames
<1>27. ASSUME NEW f \in Frames, TakesData(f) PROVE Tasks'
  BY <1>27 DEF TakesData, Takes, Dispatch, Frames
<1>28. ASSUME NEW f \in Frames, TakesWindow(f) PROVE Tasks'
  BY <1>28 DEF TakesWindow, Takes, Dispatch, Frames
<1>29. ASSUME NEW f \in Frames, TakesResize(f) PROVE Tasks'
  BY <1>29 DEF TakesResize, Takes, Dispatch, Frames
<1>30. ASSUME NEW f \in Frames, TakesClosing(f) PROVE Tasks'
  BY <1>30 DEF TakesClosing, Takes, Dispatch, CloseEntry, Frames
<1>31. ASSUME StartPTY PROVE Tasks'
  <2>1. server'[task.id].state \in {"open", "closed"} /\ task'.id = task.id /\ task'.step \in {"accepting", "reporting"}
    BY <1>31 DEF StartPTY
  <2>2. QED
    BY <1>31, <2>1 DEF StartPTY
<1>32. ASSUME SendAccepted PROVE Tasks'
  BY <1>32 DEF SendAccepted
<1>33. ASSUME SendUpdate PROVE Tasks'
  BY <1>33 DEF SendUpdate
<1>34. ASSUME SendAck PROVE Tasks'
  BY <1>34 DEF SendAck
<1>35. ASSUME SendError PROVE Tasks'
  BY <1>35 DEF SendError
<1>36. ASSUME PtyTakesInput PROVE Tasks'
  BY <1>36 DEF PtyTakesInput
<1>37. ASSUME PtyRefusesInput PROVE Tasks'
  BY <1>37 DEF PtyRefusesInput, CloseEntry
<1>38. ASSUME NEW i \in Ids, TakeOutputCredit(i) PROVE Tasks'
  BY <1>38 DEF TakeOutputCredit, Lower
<1>39. ASSUME NEW i \in Ids, SendOutput(i) PROVE Tasks'
  BY <1>39 DEF SendOutput
<1>40. ASSUME NEW i \in Ids, StopForwarding(i) PROVE Tasks'
  BY <1>40 DEF StopForwarding
<1>41. ASSUME NEW i \in Ids, WaitReturns(i) PROVE Tasks'
  BY <1>41 DEF WaitReturns, CloseEntry
<1>42. ASSUME NEW i \in Ids, SendClose(i) PROVE Tasks'
  BY <1>42 DEF SendClose
<1>43. ASSUME NEW i \in Ids, ProcessExits(i) PROVE Tasks'
  BY <1>43 DEF ProcessExits
<1>44. ASSUME NEW i \in Ids, NEW n \in 1..Window, ReadPTY(i, n) PROVE Tasks'
  BY <1>44 DEF ReadPTY
<1>45. ASSUME LoseConnection PROVE Tasks'
  BY <1>45 DEF LoseConnection, End
<1>46. CASE UNCHANGED vars
  BY <1>46 DEF vars
<1>47. QED
  BY <1>1, <1>2, <1>3, <1>4, <1>5, <1>6, <1>7, <1>8, <1>9, <1>10, <1>11, <1>12, <1>13, <1>14, <1>15, <1>16, <1>17,
     <1>18, <1>19, <1>20, <1>21, <1>22, <1>23, <1>24, <1>25, <1>26, <1>27, <1>28, <1>29, <1>30, <1>31, <1>32, <1>33,
     <1>34, <1>35, <1>36, <1>37, <1>38, <1>39, <1>40, <1>41, <1>42, <1>43, <1>44, <1>45, <1>46, HandleFrameCases, MonitorCases
     DEF Next, ClientStep, ClientChoice, DispatcherStep, StreamStep

-----------------------------------------------------------------------------
(* What a step leaves alone.                                                *)

\* ClientTypeOK is about these variables.
LEMMA ClientTypeOKKept == ClientTypeOK /\ UNCHANGED <<cliDone, streams, nextStream, child, opener, reader, writer,
        closer>> => ClientTypeOK'
BY DEF ClientTypeOK

\* ServerTypeOK is about these variables.
LEMMA ServerTypeOKKept == ServerTypeOK /\ UNCHANGED <<srvDone, slots, server, task, forwarder, waiter>> =>
        ServerTypeOK'
BY DEF ServerTypeOK

\* Allocated is about these variables.
LEMMA AllocatedKept == Allocated /\ UNCHANGED <<streams, opener, server, nextStream, toServer, cliDone>> =>
        Allocated'
BY DEF Allocated

\* Answers is about these variables.
LEMMA AnswersKept == Answers /\ UNCHANGED <<server, task, child, forwarder, waiter, toClient>> => Answers'
BY DEF Answers, Unanswered

\* Unaccepted is about these variables.
LEMMA UnacceptedKept == Unaccepted /\ UNCHANGED <<child, opener, reader, writer, task, toServer, toClient>> =>
        Unaccepted'
BY DEF Unaccepted, InputTask

\* Chunks is about these variables.
LEMMA ChunksKept == Chunks /\ UNCHANGED <<forwarder>> => Chunks'
BY DEF Chunks

\* SlotsExact is about these variables.
LEMMA SlotsExactKept == SlotsExact /\ UNCHANGED <<slots, server>> => SlotsExact'
BY DEF SlotsExact

\* NoOrphanProcess is about these variables.
LEMMA NoOrphanProcessKept == NoOrphanProcess /\ UNCHANGED <<server, srvDone>> => NoOrphanProcess'
BY DEF NoOrphanProcess

\* Buffered is about these variables.
LEMMA BufferedKept == Buffered /\ UNCHANGED <<child, reader, cliDone>> => Buffered'
BY DEF Buffered, Taken

\* Received is about these variables.
LEMMA ReceivedKept == Received /\ UNCHANGED <<server, task>> => Received'
BY DEF Received, InputTask

\* InputCredit is about these variables.
LEMMA InputCreditKept == InputCredit /\ UNCHANGED <<child, writer, toServer, task, toClient>> => InputCredit'
BY DEF InputCredit, InputTask

\* OutputCreditConserved is about these variables.
LEMMA OutputCreditConservedKept == OutputCreditConserved /\ UNCHANGED <<lost, cliDone, srvDone, streams, server,
        forwarder, toClient, child, reader, toServer>> => OutputCreditConserved'
BY DEF OutputCreditConserved, Live

-----------------------------------------------------------------------------
(* One step of one goroutine at a time.                                     *)

\* Allocate preserves the invariant.
LEMMA AllocateKeeps == ASSUME StreamInv, Allocate PROVE Windows'
<1> USE DEF StreamInv, TypeOK, clientVars, serverVars, linkVars
<1>0. Numbers /\ Addressed
  BY NumbersHold, FramesAddressed
<1>a. nextStream \in Ids /\ nextStream + 1 \in FirstId..(FirstId + MaxAllocated)
  BY IdFacts DEF Allocate
<1>1. /\ UNCHANGED <<toServer, toClient, lost, ended, cliDone, child, reader, writer, closer, srvDone, slots,
            server, task, forwarder, waiter>>
      /\ ~cliDone /\ nextStream' = nextStream + 1 /\ streams' = streams \cup {nextStream}
  BY <1>a DEF Allocate
<1>2. Put(opener, opener', nextStream, "writing")
  BY <1>0, <1>a, <1>1 DEF Allocate, Put, ClientTypeOK
<1>3. ServerTypeOK' /\ Answers' /\ Chunks' /\ SlotsExact' /\ NoOrphanProcess' /\ Buffered' /\ Received' /\
          InputCredit'
  BY ONLY StreamInv, <1>1, ServerTypeOKKept, AnswersKept, ChunksKept, SlotsExactKept, NoOrphanProcessKept,
       BufferedKept, ReceivedKept, InputCreditKept DEF StreamInv, TypeOK
<1>4. ClientTypeOK'
  BY ONLY StreamInv, <1>0, <1>a, <1>1, <1>2, IdFacts DEF StreamInv, TypeOK, ClientTypeOK, Numbers, Put
<1>5. Allocated'
  BY ONLY StreamInv, <1>0, <1>a, <1>1, <1>2, IdFacts DEF StreamInv, TypeOK, Allocated, Addressed, Put
<1>6. Unaccepted'
  BY ONLY StreamInv, <1>0, <1>a, <1>1, <1>2, IdFacts DEF StreamInv, TypeOK, Unaccepted, InputTask, Addressed, Put
<1>7. OutputCreditConserved'
  BY ONLY StreamInv, <1>0, <1>a, <1>1, <1>2, IdFacts DEF StreamInv, TypeOK, OutputCreditConserved, Live, Allocated,
       Numbers, Put
<1>8. QED
  BY <1>3, <1>4, <1>5, <1>6, <1>7 DEF Windows

\* WriteOpen preserves the invariant.
LEMMA WriteOpenKeeps == ASSUME StreamInv, NEW i \in Ids, WriteOpen(i) PROVE Windows'
<1> USE DEF StreamInv, TypeOK, clientVars, serverVars, linkVars
<1>0. Numbers /\ Addressed
  BY NumbersHold, FramesAddressed
<1>1. /\ UNCHANGED <<toClient, lost, ended, cliDone, streams, nextStream, child, reader, writer, closer, srvDone,
            slots, server, task, forwarder, waiter>>
      /\ opener[i] = "writing"
  BY DEF WriteOpen
<1>2. Put(opener, opener', i, "waiting")
  BY <1>0, <1>1 DEF WriteOpen, Put, ClientTypeOK
<1>3. SentToServer("open", i, 0)
  <2>1. LinkTypeOK /\ "open" \in FrameTypes /\ i \in Ids /\ 0 \in 0..Window
    BY <1>0, <1>1, <1>2 DEF FrameTypes, Numbers
  <2>2. ClientSends(Frame("open", i, 0))
    BY DEF WriteOpen
  <2>3. QED
    BY ONLY <2>1, <2>2, ClientSending
<1>4. ServerTypeOK' /\ Answers' /\ Chunks' /\ SlotsExact' /\ NoOrphanProcess' /\ Buffered' /\ Received'
  BY ONLY StreamInv, <1>1, ServerTypeOKKept, AnswersKept, ChunksKept, SlotsExactKept, NoOrphanProcessKept,
       BufferedKept, ReceivedKept DEF StreamInv, TypeOK
<1>5. ClientTypeOK'
  BY ONLY StreamInv, <1>0, <1>1, <1>2, <1>3, i \in Ids DEF StreamInv, TypeOK, ClientTypeOK, Numbers, Put,
       SentToServer
<1>6. Allocated'
  BY ONLY StreamInv, <1>0, <1>1, <1>2, <1>3, i \in Ids DEF StreamInv, TypeOK, Allocated, Addressed, Put,
       SentToServer
<1>7. Unaccepted'
  BY ONLY StreamInv, <1>0, <1>1, <1>2, <1>3, i \in Ids DEF StreamInv, TypeOK, Unaccepted, InputTask, Addressed, Put,
       SentToServer
<1>8. InputCredit'
  BY ONLY StreamInv, <1>0, <1>1, <1>2, <1>3, i \in Ids DEF StreamInv, TypeOK, InputCredit, InputTask, Numbers, Put,
       SentToServer
<1>9. OutputCreditConserved'
  BY ONLY StreamInv, <1>0, <1>1, <1>2, <1>3, i \in Ids DEF StreamInv, TypeOK, OutputCreditConserved, Live, Numbers,
       Put, SentToServer
<1>10. QED
  BY <1>4, <1>5, <1>6, <1>7, <1>8, <1>9 DEF Windows

\* CancelOpen preserves the invariant.
LEMMA CancelOpenKeeps == ASSUME StreamInv, NEW i \in Ids, CancelOpen(i) PROVE Windows'
<1> USE DEF StreamInv, TypeOK, clientVars, serverVars, linkVars
<1>0. Numbers /\ Addressed
  BY NumbersHold, FramesAddressed
<1>1. /\ UNCHANGED <<toServer, lost, nextStream, reader, writer, closer, srvDone, slots, server, task, forwarder,
            waiter>>
      /\ cliDone' = TRUE /\ streams' = {}
      /\ opener[i] \in {"writing", "waiting"}
  BY DEF CancelOpen, Finish
<1>2. ChildrenDone
  <2>1. child' = [j \in Ids |-> IF j \in streams THEN [child[j] EXCEPT !.done = TRUE] ELSE child[j]]
    BY DEF CancelOpen, Finish
  <2>2. child \in [Ids -> Children]
    BY DEF ClientTypeOK
  <2>3. QED
    BY ONLY <2>1, <2>2 DEF ChildrenDone, Children
<1>3. Under(toClient') = {} /\ \A t, j : InFlight(toClient', t, j) = 0
  BY UnderFrames, InFlightEmpty DEF CancelOpen, Finish
<1>4. Put(opener, opener', i, "failed")
  BY <1>0, <1>1, <1>2, <1>3 DEF CancelOpen, Finish, Put, ClientTypeOK
<1>5. ServerTypeOK' /\ Chunks' /\ SlotsExact' /\ NoOrphanProcess' /\ Received'
  BY ONLY StreamInv, <1>1, ServerTypeOKKept, ChunksKept, SlotsExactKept, NoOrphanProcessKept, ReceivedKept DEF
       StreamInv, TypeOK
<1>6. ClientTypeOK'
  BY ONLY StreamInv, <1>0, <1>1, <1>2, <1>3, <1>4, i \in Ids DEF StreamInv, TypeOK, ClientTypeOK, Numbers,
       ChildrenDone, Put
<1>7. Allocated'
  BY ONLY StreamInv, <1>0, <1>1, <1>2, <1>3, <1>4, i \in Ids DEF StreamInv, TypeOK, Allocated, Addressed,
       ChildrenDone, Put
<1>8. Answers'
  BY ONLY StreamInv, <1>0, <1>1, <1>2, <1>3, <1>4, i \in Ids DEF StreamInv, TypeOK, Answers, Unanswered, Addressed,
       ChildrenDone, Put
<1>9. Unaccepted'
  BY ONLY StreamInv, <1>0, <1>1, <1>2, <1>3, <1>4, i \in Ids DEF StreamInv, TypeOK, Unaccepted, InputTask,
       Addressed, ChildrenDone, Put
<1>10. Buffered'
  BY ONLY StreamInv, <1>0, <1>1, <1>2, <1>3, <1>4, i \in Ids DEF StreamInv, TypeOK, Buffered, Taken, Numbers,
       ChildrenDone, Put
<1>11. InputCredit'
  BY ONLY StreamInv, <1>0, <1>1, <1>2, <1>3, <1>4, i \in Ids DEF StreamInv, TypeOK, InputCredit, InputTask, Numbers,
       ChildrenDone, Put
<1>12. OutputCreditConserved'
  BY ONLY StreamInv, <1>0, <1>1, <1>2, <1>3, <1>4, i \in Ids DEF StreamInv, TypeOK, OutputCreditConserved, Live,
       Numbers, ChildrenDone, Put
<1>13. QED
  BY <1>5, <1>6, <1>7, <1>8, <1>9, <1>10, <1>11, <1>12 DEF Windows

\* OpenReturns preserves the invariant.
LEMMA OpenReturnsKeeps == ASSUME StreamInv, NEW i \in Ids, OpenReturns(i) PROVE Windows'
<1> USE DEF StreamInv, TypeOK, clientVars, serverVars, linkVars
<1>0. Numbers /\ Addressed
  BY NumbersHold, FramesAddressed
<1>v. PICK v \in {"open", "failed"} : /\ opener' = [opener EXCEPT ![i] = v]
                                      /\ v = "open" => child[i].accepted
                                      /\ opener[i] \in {"writing", "waiting"}
  BY DEF OpenReturns
<1>1. /\ UNCHANGED <<toServer, toClient, lost, ended, cliDone, streams, nextStream, child, reader, writer, closer,
            srvDone, slots, server, task, forwarder, waiter>>
  BY <1>v DEF OpenReturns
<1>2. Put(opener, opener', i, v)
  BY ONLY <1>v, i \in Ids, ClientTypeOK DEF Put, ClientTypeOK
<1>3. ServerTypeOK' /\ Answers' /\ Chunks' /\ SlotsExact' /\ NoOrphanProcess' /\ Buffered' /\ Received' /\
          InputCredit' /\ OutputCreditConserved'
  BY ONLY StreamInv, <1>1, ServerTypeOKKept, AnswersKept, ChunksKept, SlotsExactKept, NoOrphanProcessKept,
       BufferedKept, ReceivedKept, InputCreditKept, OutputCreditConservedKept DEF StreamInv, TypeOK
<1>4. ClientTypeOK'
  BY ONLY StreamInv, <1>0, <1>v, <1>1, <1>2, i \in Ids DEF StreamInv, TypeOK, ClientTypeOK, Numbers, Put
<1>5. Allocated'
  BY ONLY StreamInv, <1>0, <1>v, <1>1, <1>2, i \in Ids DEF StreamInv, TypeOK, Allocated, Addressed, Put
<1>6. Unaccepted'
  BY ONLY StreamInv, <1>0, <1>v, <1>1, <1>2, i \in Ids DEF StreamInv, TypeOK, Unaccepted, InputTask, Addressed, Put
<1>7. QED
  BY <1>3, <1>4, <1>5, <1>6 DEF Windows

\* BeginRead preserves the invariant.
LEMMA BeginReadKeeps == ASSUME StreamInv, NEW i \in Ids, BeginRead(i) PROVE Windows'
<1> USE DEF StreamInv, TypeOK, clientVars, serverVars, linkVars
<1>0. Numbers /\ Addressed
  BY NumbersHold, FramesAddressed
<1>1. /\ UNCHANGED <<toServer, toClient, lost, ended, cliDone, streams, nextStream, child, opener, writer, closer,
            srvDone, slots, server, task, forwarder, waiter>>
      /\ opener[i] = "open" /\ reader[i].step = "idle"
  BY DEF BeginRead, Usable, Found
<1>2. ReaderSet(i, "polling", reader[i].n)
  <2>1. PICK r : r = [reader[i] EXCEPT !.step = "polling"]
    OBVIOUS
  <2>2. reader \in [Ids -> Readers] /\ reader[i] \in Readers /\ i \in Ids
    BY <1>0, <1>1 DEF ClientTypeOK, Readers
  <2>4. r \in Readers /\ r.step = "polling" /\ r.n = reader[i].n
    BY ONLY <2>1, <2>2 DEF Readers
  <2>5. reader' = [reader EXCEPT ![i] = r]
    BY <2>1 DEF BeginRead, Usable, Found
  <2>6. QED
    BY ONLY <2>2, <2>4, <2>5, PutPlace DEF ReaderSet
<1>3. ServerTypeOK' /\ Allocated' /\ Answers' /\ Chunks' /\ SlotsExact' /\ NoOrphanProcess' /\ Received' /\
          InputCredit'
  BY ONLY StreamInv, <1>1, ServerTypeOKKept, AllocatedKept, AnswersKept, ChunksKept, SlotsExactKept,
       NoOrphanProcessKept, ReceivedKept, InputCreditKept DEF StreamInv, TypeOK
<1>4. ClientTypeOK'
  BY ONLY StreamInv, <1>0, <1>1, <1>2, i \in Ids DEF StreamInv, TypeOK, ClientTypeOK, Numbers, ReaderSet, Readers
<1>5. Unaccepted'
  BY ONLY StreamInv, <1>0, <1>1, <1>2, i \in Ids DEF StreamInv, TypeOK, Unaccepted, InputTask, Addressed, ReaderSet
<1>6. Buffered'
  BY ONLY StreamInv, <1>0, <1>1, <1>2, i \in Ids DEF StreamInv, TypeOK, Buffered, Taken, Numbers, ReaderSet
<1>7. OutputCreditConserved'
  BY ONLY StreamInv, <1>0, <1>1, <1>2, i \in Ids DEF StreamInv, TypeOK, OutputCreditConserved, Live, Numbers,
       ReaderSet
<1>8. QED
  BY <1>3, <1>4, <1>5, <1>6, <1>7 DEF Windows

\* TakeOutput preserves the invariant.
LEMMA TakeOutputKeeps == ASSUME StreamInv, NEW i \in Ids, NEW n \in 1..Window, TakeOutput(i, n) PROVE Windows'
<1> USE DEF StreamInv, TypeOK, clientVars, serverVars, linkVars
<1>0. Numbers /\ Addressed
  BY NumbersHold, FramesAddressed
<1>1. /\ UNCHANGED <<toServer, toClient, lost, ended, cliDone, streams, nextStream, opener, writer, closer, srvDone,
            slots, server, task, forwarder, waiter>>
      /\ reader[i].step = "polling" /\ n <= child[i].queue
  BY DEF TakeOutput
<1>2. ChildSet(i, child[i].accepted, child[i].send, child[i].recv, child[i].queue - n)
  <2>1. PICK r : r = [child[i] EXCEPT !.queue = child[i].queue - n]
    OBVIOUS
  <2>2. child \in [Ids -> Children] /\ child[i] \in Children /\ i \in Ids
    BY <1>0, <1>1 DEF ClientTypeOK
  <2>3. child[i].queue - n \in 0..Window
    BY ONLY <1>0, <1>1, <2>2, StreamInv, i \in Ids, n \in 1..Window DEF StreamInv, Numbers, Buffered, Taken
  <2>4. r \in Children /\ r.accepted = child[i].accepted /\ r.send = child[i].send /\ r.recv = child[i].recv /\
        r.queue = child[i].queue - n
    BY ONLY <2>1, <2>2, <2>3 DEF Children
  <2>5. child' = [child EXCEPT ![i] = r]
    BY <2>1 DEF TakeOutput
  <2>6. QED
    BY ONLY <2>2, <2>4, <2>5, PutPlace DEF ChildSet
<1>3. ReaderSet(i, "updating", n)
  <2>1. PICK r : r = [step |-> "updating", n |-> n]
    OBVIOUS
  <2>2. reader \in [Ids -> Readers] /\ reader[i] \in Readers /\ i \in Ids
    BY <1>0, <1>1, <1>2 DEF ClientTypeOK, Readers
  <2>3. n \in 0..Window
    BY ONLY <1>0, <1>1, <1>2, <2>2, StreamInv, i \in Ids, n \in 1..Window DEF StreamInv, Numbers
  <2>4. r \in Readers /\ r.step = "updating" /\ r.n = n
    BY ONLY <2>1, <2>2, <2>3 DEF Readers
  <2>5. reader' = [reader EXCEPT ![i] = r]
    BY <2>1 DEF TakeOutput
  <2>6. QED
    BY ONLY <2>2, <2>4, <2>5, PutPlace DEF ReaderSet
<1>4. ServerTypeOK' /\ Allocated' /\ Chunks' /\ SlotsExact' /\ NoOrphanProcess' /\ Received'
  BY ONLY StreamInv, <1>1, ServerTypeOKKept, AllocatedKept, ChunksKept, SlotsExactKept, NoOrphanProcessKept,
       ReceivedKept DEF StreamInv, TypeOK
<1>5. ClientTypeOK'
  BY ONLY StreamInv, <1>0, <1>1, <1>2, <1>3, i \in Ids, n \in 1..Window DEF StreamInv, TypeOK, ClientTypeOK,
       Numbers, ChildSet, ReaderSet, Readers
<1>6. Answers'
  BY ONLY StreamInv, <1>0, <1>1, <1>2, <1>3, i \in Ids, n \in 1..Window DEF StreamInv, TypeOK, Answers, Unanswered,
       Addressed, ChildSet, ReaderSet
<1>7. Unaccepted'
  BY ONLY StreamInv, <1>0, <1>1, <1>2, <1>3, i \in Ids, n \in 1..Window DEF StreamInv, TypeOK, Unaccepted,
       InputTask, Addressed, ChildSet, ReaderSet
<1>8. Buffered'
  BY ONLY StreamInv, <1>0, <1>1, <1>2, <1>3, i \in Ids, n \in 1..Window DEF StreamInv, TypeOK, Buffered, Taken,
       Numbers, ChildSet, ReaderSet
<1>9. InputCredit'
  BY ONLY StreamInv, <1>0, <1>1, <1>2, <1>3, i \in Ids, n \in 1..Window DEF StreamInv, TypeOK, InputCredit,
       InputTask, Numbers, ChildSet, ReaderSet
<1>10. OutputCreditConserved'
  BY ONLY StreamInv, <1>0, <1>1, <1>2, <1>3, i \in Ids, n \in 1..Window DEF StreamInv, TypeOK,
       OutputCreditConserved, Live, Numbers, ChildSet, ReaderSet
<1>11. QED
  BY <1>4, <1>5, <1>6, <1>7, <1>8, <1>9, <1>10 DEF Windows

\* EndRead preserves the invariant.
LEMMA EndReadKeeps == ASSUME StreamInv, NEW i \in Ids, EndRead(i) PROVE Windows'
<1> USE DEF StreamInv, TypeOK, clientVars, serverVars, linkVars
<1>0. Numbers /\ Addressed
  BY NumbersHold, FramesAddressed
<1>1. /\ UNCHANGED <<toServer, toClient, lost, ended, cliDone, streams, nextStream, child, opener, writer, closer,
            srvDone, slots, server, task, forwarder, waiter>>
      /\ reader[i].step = "polling"
  BY DEF EndRead
<1>2. ReaderSet(i, "idle", reader[i].n)
  <2>1. PICK r : r = [reader[i] EXCEPT !.step = "idle"]
    OBVIOUS
  <2>2. reader \in [Ids -> Readers] /\ reader[i] \in Readers /\ i \in Ids
    BY <1>0, <1>1 DEF ClientTypeOK, Readers
  <2>4. r \in Readers /\ r.step = "idle" /\ r.n = reader[i].n
    BY ONLY <2>1, <2>2 DEF Readers
  <2>5. reader' = [reader EXCEPT ![i] = r]
    BY <2>1 DEF EndRead
  <2>6. QED
    BY ONLY <2>2, <2>4, <2>5, PutPlace DEF ReaderSet
<1>3. ServerTypeOK' /\ Allocated' /\ Answers' /\ Chunks' /\ SlotsExact' /\ NoOrphanProcess' /\ Received' /\
          InputCredit'
  BY ONLY StreamInv, <1>1, ServerTypeOKKept, AllocatedKept, AnswersKept, ChunksKept, SlotsExactKept,
       NoOrphanProcessKept, ReceivedKept, InputCreditKept DEF StreamInv, TypeOK
<1>4. ClientTypeOK'
  BY ONLY StreamInv, <1>0, <1>1, <1>2, i \in Ids DEF StreamInv, TypeOK, ClientTypeOK, Numbers, ReaderSet, Readers
<1>5. Unaccepted'
  BY ONLY StreamInv, <1>0, <1>1, <1>2, i \in Ids DEF StreamInv, TypeOK, Unaccepted, InputTask, Addressed, ReaderSet
<1>6. Buffered'
  BY ONLY StreamInv, <1>0, <1>1, <1>2, i \in Ids DEF StreamInv, TypeOK, Buffered, Taken, Numbers, ReaderSet
<1>7. OutputCreditConserved'
  BY ONLY StreamInv, <1>0, <1>1, <1>2, i \in Ids DEF StreamInv, TypeOK, OutputCreditConserved, Live, Numbers,
       ReaderSet
<1>8. QED
  BY <1>3, <1>4, <1>5, <1>6, <1>7 DEF Windows

\* WriteUpdate preserves the invariant.
LEMMA WriteUpdateKeeps == ASSUME StreamInv, NEW i \in Ids, WriteUpdate(i) PROVE Windows'
<1> USE DEF StreamInv, TypeOK, clientVars, serverVars, linkVars
<1>0. Numbers /\ Addressed
  BY NumbersHold, FramesAddressed
<1>m. PICK m : m = reader[i].n
  OBVIOUS
<1>1. /\ UNCHANGED <<toClient, lost, ended, cliDone, streams, nextStream, child, opener, writer, closer, srvDone,
            slots, server, task, forwarder, waiter>>
      /\ reader[i].step = "updating"
  BY <1>m DEF WriteUpdate
<1>2. ReaderSet(i, "crediting", reader[i].n)
  <2>1. PICK r : r = [reader[i] EXCEPT !.step = "crediting"]
    OBVIOUS
  <2>2. reader \in [Ids -> Readers] /\ reader[i] \in Readers /\ i \in Ids
    BY <1>0, <1>m, <1>1 DEF ClientTypeOK, Readers
  <2>4. r \in Readers /\ r.step = "crediting" /\ r.n = reader[i].n
    BY ONLY <2>1, <2>2 DEF Readers
  <2>5. reader' = [reader EXCEPT ![i] = r]
    BY <2>1, <1>m DEF WriteUpdate
  <2>6. QED
    BY ONLY <2>2, <2>4, <2>5, PutPlace DEF ReaderSet
<1>3. SentToServer("window", i, m)
  <2>1. LinkTypeOK /\ "window" \in FrameTypes /\ i \in Ids /\ m \in 0..Window
    BY <1>0, <1>m, <1>1, <1>2 DEF FrameTypes, Numbers
  <2>2. ClientSends(Frame("window", i, m))
    BY <1>m DEF WriteUpdate
  <2>3. QED
    BY ONLY <2>1, <2>2, ClientSending
<1>4. ServerTypeOK' /\ Answers' /\ Chunks' /\ SlotsExact' /\ NoOrphanProcess' /\ Received'
  BY ONLY StreamInv, <1>1, ServerTypeOKKept, AnswersKept, ChunksKept, SlotsExactKept, NoOrphanProcessKept,
       ReceivedKept DEF StreamInv, TypeOK
<1>5. ClientTypeOK'
  BY ONLY StreamInv, <1>0, <1>m, <1>1, <1>2, <1>3, i \in Ids DEF StreamInv, TypeOK, ClientTypeOK, Numbers,
       ReaderSet, Readers, SentToServer
<1>6. Allocated'
  BY ONLY StreamInv, <1>0, <1>m, <1>1, <1>2, <1>3, i \in Ids DEF StreamInv, TypeOK, Allocated, Addressed, ReaderSet,
       SentToServer
<1>7. Unaccepted'
  BY ONLY StreamInv, <1>0, <1>m, <1>1, <1>2, <1>3, i \in Ids DEF StreamInv, TypeOK, Unaccepted, InputTask,
       Addressed, ReaderSet, SentToServer
<1>8. Buffered'
  BY ONLY StreamInv, <1>0, <1>m, <1>1, <1>2, <1>3, i \in Ids DEF StreamInv, TypeOK, Buffered, Taken, Numbers,
       ReaderSet, SentToServer
<1>9. InputCredit'
  BY ONLY StreamInv, <1>0, <1>m, <1>1, <1>2, <1>3, i \in Ids DEF StreamInv, TypeOK, InputCredit, InputTask, Numbers,
       ReaderSet, SentToServer
<1>10. OutputCreditConserved'
  BY ONLY StreamInv, <1>0, <1>m, <1>1, <1>2, <1>3, i \in Ids DEF StreamInv, TypeOK, OutputCreditConserved, Live,
       Numbers, ReaderSet, SentToServer
<1>11. QED
  BY <1>4, <1>5, <1>6, <1>7, <1>8, <1>9, <1>10 DEF Windows

\* CancelUpdate preserves the invariant.
LEMMA CancelUpdateKeeps == ASSUME StreamInv, NEW i \in Ids, CancelUpdate(i), ~cliDone PROVE Windows'
<1> USE DEF StreamInv, TypeOK, clientVars, serverVars, linkVars
<1>0. Numbers /\ Addressed
  BY NumbersHold, FramesAddressed
<1>1. /\ UNCHANGED <<toServer, lost, nextStream, opener, writer, closer, srvDone, slots, server, task, forwarder,
            waiter>>
      /\ cliDone' = TRUE /\ streams' = {}
      /\ reader[i].step = "updating"
      /\ ~cliDone
  BY DEF CancelUpdate, Finish
<1>2. ReaderSet(i, "idle", 0)
  <2>1. PICK r : r = [step |-> "idle", n |-> 0]
    OBVIOUS
  <2>2. reader \in [Ids -> Readers] /\ reader[i] \in Readers /\ i \in Ids
    BY <1>0, <1>1 DEF ClientTypeOK, Readers
  <2>3. 0 \in 0..Window
    BY ONLY <1>0, <1>1, <2>2, StreamInv, i \in Ids DEF StreamInv, Numbers
  <2>4. r \in Readers /\ r.step = "idle" /\ r.n = 0
    BY ONLY <2>1, <2>2, <2>3 DEF Readers
  <2>5. reader' = [reader EXCEPT ![i] = r]
    BY <2>1 DEF CancelUpdate, Finish
  <2>6. QED
    BY ONLY <2>2, <2>4, <2>5, PutPlace DEF ReaderSet
<1>3. ChildrenDone
  <2>1. child' = [j \in Ids |-> IF j \in streams THEN [child[j] EXCEPT !.done = TRUE] ELSE child[j]]
    BY DEF CancelUpdate, Finish
  <2>2. child \in [Ids -> Children]
    BY DEF ClientTypeOK
  <2>3. QED
    BY ONLY <2>1, <2>2 DEF ChildrenDone, Children
<1>4. Under(toClient') = {} /\ \A t, j : InFlight(toClient', t, j) = 0
  BY UnderFrames, InFlightEmpty DEF CancelUpdate, Finish
<1>5. ServerTypeOK' /\ Chunks' /\ SlotsExact' /\ NoOrphanProcess' /\ Received'
  BY ONLY StreamInv, <1>1, ServerTypeOKKept, ChunksKept, SlotsExactKept, NoOrphanProcessKept, ReceivedKept DEF
       StreamInv, TypeOK
<1>6. ClientTypeOK'
  BY ONLY StreamInv, <1>0, <1>1, <1>2, <1>3, <1>4, i \in Ids DEF StreamInv, TypeOK, ClientTypeOK, Numbers,
       ReaderSet, ChildrenDone, Readers
<1>7. Allocated'
  BY ONLY StreamInv, <1>0, <1>1, <1>2, <1>3, <1>4, i \in Ids DEF StreamInv, TypeOK, Allocated, Addressed, ReaderSet,
       ChildrenDone
<1>8. Answers'
  BY ONLY StreamInv, <1>0, <1>1, <1>2, <1>3, <1>4, i \in Ids DEF StreamInv, TypeOK, Answers, Unanswered, Addressed,
       ReaderSet, ChildrenDone
<1>9. Unaccepted'
  BY ONLY StreamInv, <1>0, <1>1, <1>2, <1>3, <1>4, i \in Ids DEF StreamInv, TypeOK, Unaccepted, InputTask,
       Addressed, ReaderSet, ChildrenDone
<1>10. Buffered'
  BY ONLY StreamInv, <1>0, <1>1, <1>2, <1>3, <1>4, i \in Ids DEF StreamInv, TypeOK, Buffered, Taken, Numbers,
       ReaderSet, ChildrenDone
<1>11. InputCredit'
  BY ONLY StreamInv, <1>0, <1>1, <1>2, <1>3, <1>4, i \in Ids DEF StreamInv, TypeOK, InputCredit, InputTask, Numbers,
       ReaderSet, ChildrenDone
<1>12. OutputCreditConserved'
  BY ONLY StreamInv, <1>0, <1>1, <1>2, <1>3, <1>4, i \in Ids DEF StreamInv, TypeOK, OutputCreditConserved, Live,
       Numbers, ReaderSet, ChildrenDone
<1>13. QED
  BY <1>5, <1>6, <1>7, <1>8, <1>9, <1>10, <1>11, <1>12 DEF Windows

\* Nor does it after the end of the parent.
LEMMA CancelUpdateLateKeeps == ASSUME StreamInv, NEW i \in Ids, CancelUpdate(i), cliDone PROVE Windows'
<1> USE DEF StreamInv, TypeOK, clientVars, serverVars, linkVars
<1>0. Numbers /\ Addressed
  BY NumbersHold, FramesAddressed
<1>1. /\ UNCHANGED <<toServer, toClient, lost, ended, cliDone, streams, nextStream, child, opener, writer, closer,
            srvDone, slots, server, task, forwarder, waiter>>
      /\ reader[i].step = "updating" /\ cliDone
      /\ cliDone
  BY DEF CancelUpdate
<1>2. ReaderSet(i, "idle", 0)
  <2>1. PICK r : r = [step |-> "idle", n |-> 0]
    OBVIOUS
  <2>2. reader \in [Ids -> Readers] /\ reader[i] \in Readers /\ i \in Ids
    BY <1>0, <1>1 DEF ClientTypeOK, Readers
  <2>3. 0 \in 0..Window
    BY ONLY <1>0, <1>1, <2>2, StreamInv, i \in Ids DEF StreamInv, Numbers
  <2>4. r \in Readers /\ r.step = "idle" /\ r.n = 0
    BY ONLY <2>1, <2>2, <2>3 DEF Readers
  <2>5. reader' = [reader EXCEPT ![i] = r]
    BY <2>1 DEF CancelUpdate
  <2>6. QED
    BY ONLY <2>2, <2>4, <2>5, PutPlace DEF ReaderSet
<1>3. ServerTypeOK' /\ Allocated' /\ Answers' /\ Chunks' /\ SlotsExact' /\ NoOrphanProcess' /\ Received' /\
          InputCredit'
  BY ONLY StreamInv, <1>1, ServerTypeOKKept, AllocatedKept, AnswersKept, ChunksKept, SlotsExactKept,
       NoOrphanProcessKept, ReceivedKept, InputCreditKept DEF StreamInv, TypeOK
<1>4. ClientTypeOK'
  BY ONLY StreamInv, <1>0, <1>1, <1>2, i \in Ids DEF StreamInv, TypeOK, ClientTypeOK, Numbers, ReaderSet, Readers
<1>5. Unaccepted'
  BY ONLY StreamInv, <1>0, <1>1, <1>2, i \in Ids DEF StreamInv, TypeOK, Unaccepted, InputTask, Addressed, ReaderSet
<1>6. Buffered'
  BY ONLY StreamInv, <1>0, <1>1, <1>2, i \in Ids DEF StreamInv, TypeOK, Buffered, Taken, Numbers, ReaderSet
<1>7. OutputCreditConserved'
  BY ONLY StreamInv, <1>0, <1>1, <1>2, i \in Ids DEF StreamInv, TypeOK, OutputCreditConserved, Live, Numbers,
       ReaderSet
<1>8. QED
  BY <1>3, <1>4, <1>5, <1>6, <1>7 DEF Windows

\* CreditOutput preserves the invariant.
LEMMA CreditOutputKeeps == ASSUME StreamInv, NEW i \in Ids, CreditOutput(i) PROVE Windows'
<1> USE DEF StreamInv, TypeOK, clientVars, serverVars, linkVars
<1>0. Numbers /\ Addressed
  BY NumbersHold, FramesAddressed
<1>1. /\ UNCHANGED <<toServer, toClient, lost, ended, cliDone, streams, nextStream, opener, writer, closer, srvDone,
            slots, server, task, forwarder, waiter>>
      /\ reader[i].step = "crediting"
  BY DEF CreditOutput
<1>2. ChildSet(i, child[i].accepted, child[i].send, child[i].recv + reader[i].n, child[i].queue)
  <2>1. PICK r : r = [child[i] EXCEPT !.recv = child[i].recv + reader[i].n]
    OBVIOUS
  <2>2. child \in [Ids -> Children] /\ child[i] \in Children /\ i \in Ids
    BY <1>0, <1>1 DEF ClientTypeOK
  <2>3. child[i].recv + reader[i].n \in 0..Window
    BY ONLY <1>0, <1>1, <2>2, StreamInv, i \in Ids DEF StreamInv, Numbers, Buffered, Taken
  <2>4. r \in Children /\ r.accepted = child[i].accepted /\ r.send = child[i].send /\ r.recv = child[i].recv +
        reader[i].n /\ r.queue = child[i].queue
    BY ONLY <2>1, <2>2, <2>3 DEF Children
  <2>5. child' = [child EXCEPT ![i] = r]
    BY <2>1 DEF CreditOutput
  <2>6. QED
    BY ONLY <2>2, <2>4, <2>5, PutPlace DEF ChildSet
<1>3. ReaderSet(i, "idle", 0)
  <2>1. PICK r : r = [step |-> "idle", n |-> 0]
    OBVIOUS
  <2>2. reader \in [Ids -> Readers] /\ reader[i] \in Readers /\ i \in Ids
    BY <1>0, <1>1, <1>2 DEF ClientTypeOK, Readers
  <2>3. 0 \in 0..Window
    BY ONLY <1>0, <1>1, <1>2, <2>2, StreamInv, i \in Ids DEF StreamInv, Numbers
  <2>4. r \in Readers /\ r.step = "idle" /\ r.n = 0
    BY ONLY <2>1, <2>2, <2>3 DEF Readers
  <2>5. reader' = [reader EXCEPT ![i] = r]
    BY <2>1 DEF CreditOutput
  <2>6. QED
    BY ONLY <2>2, <2>4, <2>5, PutPlace DEF ReaderSet
<1>4. ServerTypeOK' /\ Allocated' /\ Chunks' /\ SlotsExact' /\ NoOrphanProcess' /\ Received'
  BY ONLY StreamInv, <1>1, ServerTypeOKKept, AllocatedKept, ChunksKept, SlotsExactKept, NoOrphanProcessKept,
       ReceivedKept DEF StreamInv, TypeOK
<1>5. ClientTypeOK'
  BY ONLY StreamInv, <1>0, <1>1, <1>2, <1>3, i \in Ids DEF StreamInv, TypeOK, ClientTypeOK, Numbers, ChildSet,
       ReaderSet, Readers
<1>6. Answers'
  BY ONLY StreamInv, <1>0, <1>1, <1>2, <1>3, i \in Ids DEF StreamInv, TypeOK, Answers, Unanswered, Addressed,
       ChildSet, ReaderSet
<1>7. Unaccepted'
  BY ONLY StreamInv, <1>0, <1>1, <1>2, <1>3, i \in Ids DEF StreamInv, TypeOK, Unaccepted, InputTask, Addressed,
       ChildSet, ReaderSet
<1>8. Buffered'
  BY ONLY StreamInv, <1>0, <1>1, <1>2, <1>3, i \in Ids DEF StreamInv, TypeOK, Buffered, Taken, Numbers, ChildSet,
       ReaderSet
<1>9. InputCredit'
  BY ONLY StreamInv, <1>0, <1>1, <1>2, <1>3, i \in Ids DEF StreamInv, TypeOK, InputCredit, InputTask, Numbers,
       ChildSet, ReaderSet
<1>10. OutputCreditConserved'
  BY ONLY StreamInv, <1>0, <1>1, <1>2, <1>3, i \in Ids DEF StreamInv, TypeOK, OutputCreditConserved, Live, Numbers,
       ChildSet, ReaderSet
<1>11. QED
  BY <1>4, <1>5, <1>6, <1>7, <1>8, <1>9, <1>10 DEF Windows

\* TakeCredit preserves the invariant.
LEMMA TakeCreditKeeps == ASSUME StreamInv, NEW i \in Ids, NEW n \in 1..Window, TakeCredit(i, n) PROVE Windows'
<1> USE DEF StreamInv, TypeOK, clientVars, serverVars, linkVars
<1>0. Numbers /\ Addressed
  BY NumbersHold, FramesAddressed
<1>1. /\ UNCHANGED <<toServer, toClient, lost, ended, cliDone, streams, nextStream, opener, reader, closer, srvDone,
            slots, server, task, forwarder, waiter>>
      /\ opener[i] = "open" /\ writer[i] = 0 /\ n <= child[i].send
  BY <1>0 DEF TakeCredit, Usable, Found, Lower, Numbers
<1>2. ChildSet(i, child[i].accepted, child[i].send - n, child[i].recv, child[i].queue)
  <2>1. PICK r : r = [child[i] EXCEPT !.send = child[i].send - n]
    OBVIOUS
  <2>2. child \in [Ids -> Children] /\ child[i] \in Children /\ i \in Ids
    BY <1>0, <1>1 DEF ClientTypeOK
  <2>3. child[i].send - n \in 0..MaxWindow
    BY ONLY <1>0, <1>1, <2>2, StreamInv, i \in Ids, n \in 1..Window DEF StreamInv, Numbers, Buffered, Taken
  <2>4. r \in Children /\ r.accepted = child[i].accepted /\ r.send = child[i].send - n /\ r.recv = child[i].recv /\
        r.queue = child[i].queue
    BY ONLY <2>1, <2>2, <2>3 DEF Children
  <2>5. child' = [child EXCEPT ![i] = r]
    BY <2>1 DEF TakeCredit, Usable, Found, Lower, Numbers
  <2>6. QED
    BY ONLY <2>2, <2>4, <2>5, PutPlace DEF ChildSet
<1>3. Put(writer, writer', i, n)
  BY <1>0, <1>1, <1>2 DEF TakeCredit, Usable, Found, Lower, Put, ClientTypeOK
<1>4. ServerTypeOK' /\ Allocated' /\ Chunks' /\ SlotsExact' /\ NoOrphanProcess' /\ Received'
  BY ONLY StreamInv, <1>1, ServerTypeOKKept, AllocatedKept, ChunksKept, SlotsExactKept, NoOrphanProcessKept,
       ReceivedKept DEF StreamInv, TypeOK
<1>5. ClientTypeOK'
  BY ONLY StreamInv, <1>0, <1>1, <1>2, <1>3, i \in Ids, n \in 1..Window DEF StreamInv, TypeOK, ClientTypeOK,
       Numbers, ChildSet, Put
<1>6. Answers'
  BY ONLY StreamInv, <1>0, <1>1, <1>2, <1>3, i \in Ids, n \in 1..Window DEF StreamInv, TypeOK, Answers, Unanswered,
       Addressed, ChildSet, Put
<1>7. Unaccepted'
  BY ONLY StreamInv, <1>0, <1>1, <1>2, <1>3, i \in Ids, n \in 1..Window DEF StreamInv, TypeOK, Unaccepted,
       InputTask, Addressed, ChildSet, Put
<1>8. Buffered'
  BY ONLY StreamInv, <1>0, <1>1, <1>2, <1>3, i \in Ids, n \in 1..Window DEF StreamInv, TypeOK, Buffered, Taken,
       Numbers, ChildSet, Put
<1>9. InputCredit'
  BY ONLY StreamInv, <1>0, <1>1, <1>2, <1>3, i \in Ids, n \in 1..Window DEF StreamInv, TypeOK, InputCredit,
       InputTask, Numbers, ChildSet, Put
<1>10. OutputCreditConserved'
  BY ONLY StreamInv, <1>0, <1>1, <1>2, <1>3, i \in Ids, n \in 1..Window DEF StreamInv, TypeOK,
       OutputCreditConserved, Live, Numbers, ChildSet, Put
<1>11. QED
  BY <1>4, <1>5, <1>6, <1>7, <1>8, <1>9, <1>10 DEF Windows

\* WriteInput preserves the invariant.
LEMMA WriteInputKeeps == ASSUME StreamInv, NEW i \in Ids, WriteInput(i) PROVE Windows'
<1> USE DEF StreamInv, TypeOK, clientVars, serverVars, linkVars
<1>0. Numbers /\ Addressed
  BY NumbersHold, FramesAddressed
<1>m. PICK m : m = writer[i]
  OBVIOUS
<1>1. /\ UNCHANGED <<toClient, lost, ended, cliDone, streams, nextStream, child, opener, reader, closer, srvDone,
            slots, server, task, forwarder, waiter>>
      /\ writer[i] > 0
  BY <1>m DEF WriteInput
<1>2. Put(writer, writer', i, 0)
  BY <1>0, <1>m, <1>1 DEF WriteInput, Put, ClientTypeOK
<1>3. SentToServer("data", i, m)
  <2>1. LinkTypeOK /\ "data" \in FrameTypes /\ i \in Ids /\ m \in 0..Window
    BY <1>0, <1>m, <1>1, <1>2 DEF FrameTypes, Numbers
  <2>2. ClientSends(Frame("data", i, m))
    BY <1>m DEF WriteInput
  <2>3. QED
    BY ONLY <2>1, <2>2, ClientSending
<1>4. ServerTypeOK' /\ Answers' /\ Chunks' /\ SlotsExact' /\ NoOrphanProcess' /\ Buffered' /\ Received'
  BY ONLY StreamInv, <1>1, ServerTypeOKKept, AnswersKept, ChunksKept, SlotsExactKept, NoOrphanProcessKept,
       BufferedKept, ReceivedKept DEF StreamInv, TypeOK
<1>5. ClientTypeOK'
  BY ONLY StreamInv, <1>0, <1>m, <1>1, <1>2, <1>3, i \in Ids DEF StreamInv, TypeOK, ClientTypeOK, Numbers, Put,
       SentToServer
<1>6. Allocated'
  BY ONLY StreamInv, <1>0, <1>m, <1>1, <1>2, <1>3, i \in Ids DEF StreamInv, TypeOK, Allocated, Addressed, Put,
       SentToServer
<1>7. Unaccepted'
  BY ONLY StreamInv, <1>0, <1>m, <1>1, <1>2, <1>3, i \in Ids DEF StreamInv, TypeOK, Unaccepted, InputTask,
       Addressed, Put, SentToServer
<1>8. InputCredit'
  BY ONLY StreamInv, <1>0, <1>m, <1>1, <1>2, <1>3, i \in Ids DEF StreamInv, TypeOK, InputCredit, InputTask, Numbers,
       Put, SentToServer
<1>9. OutputCreditConserved'
  BY ONLY StreamInv, <1>0, <1>m, <1>1, <1>2, <1>3, i \in Ids DEF StreamInv, TypeOK, OutputCreditConserved, Live,
       Numbers, Put, SentToServer
<1>10. QED
  BY <1>4, <1>5, <1>6, <1>7, <1>8, <1>9 DEF Windows

\* CancelWrite preserves the invariant.
LEMMA CancelWriteKeeps == ASSUME StreamInv, NEW i \in Ids, CancelWrite(i) PROVE Windows'
<1> USE DEF StreamInv, TypeOK, clientVars, serverVars, linkVars
<1>0. Numbers /\ Addressed
  BY NumbersHold, FramesAddressed
<1>1. /\ UNCHANGED <<toServer, toClient, lost, ended, cliDone, streams, nextStream, child, opener, reader, closer,
            srvDone, slots, server, task, forwarder, waiter>>
      /\ writer[i] > 0
  BY DEF CancelWrite
<1>2. Put(writer, writer', i, 0)
  BY <1>0, <1>1 DEF CancelWrite, Put, ClientTypeOK
<1>3. ServerTypeOK' /\ Allocated' /\ Answers' /\ Chunks' /\ SlotsExact' /\ NoOrphanProcess' /\ Buffered' /\
          Received' /\ OutputCreditConserved'
  BY ONLY StreamInv, <1>1, ServerTypeOKKept, AllocatedKept, AnswersKept, ChunksKept, SlotsExactKept,
       NoOrphanProcessKept, BufferedKept, ReceivedKept, OutputCreditConservedKept DEF StreamInv, TypeOK
<1>4. ClientTypeOK'
  BY ONLY StreamInv, <1>0, <1>1, <1>2, i \in Ids DEF StreamInv, TypeOK, ClientTypeOK, Numbers, Put
<1>5. Unaccepted'
  BY ONLY StreamInv, <1>0, <1>1, <1>2, i \in Ids DEF StreamInv, TypeOK, Unaccepted, InputTask, Addressed, Put
<1>6. InputCredit'
  BY ONLY StreamInv, <1>0, <1>1, <1>2, i \in Ids DEF StreamInv, TypeOK, InputCredit, InputTask, Numbers, Put
<1>7. QED
  BY <1>3, <1>4, <1>5, <1>6 DEF Windows

\* ResizeTerminalStream preserves the invariant.
LEMMA ResizeTerminalStreamKeeps == ASSUME StreamInv, NEW i \in Ids, ResizeTerminalStream(i) PROVE Windows'
<1> USE DEF StreamInv, TypeOK, clientVars, serverVars, linkVars
<1>0. Numbers /\ Addressed
  BY NumbersHold, FramesAddressed
<1>1. /\ UNCHANGED <<toClient, lost, ended, cliDone, streams, nextStream, child, opener, reader, writer, closer,
            srvDone, slots, server, task, forwarder, waiter>>
  BY DEF ResizeTerminalStream, Usable, Found
<1>2. SentToServer("resize", i, 0)
  <2>1. LinkTypeOK /\ "resize" \in FrameTypes /\ i \in Ids /\ 0 \in 0..Window
    BY <1>0, <1>1 DEF FrameTypes, Numbers
  <2>2. ClientSends(Frame("resize", i, 0))
    BY DEF ResizeTerminalStream, Usable, Found
  <2>3. QED
    BY ONLY <2>1, <2>2, ClientSending
<1>3. ClientTypeOK' /\ ServerTypeOK' /\ Answers' /\ Chunks' /\ SlotsExact' /\ NoOrphanProcess' /\ Buffered' /\
          Received'
  BY ONLY StreamInv, <1>1, ClientTypeOKKept, ServerTypeOKKept, AnswersKept, ChunksKept, SlotsExactKept,
       NoOrphanProcessKept, BufferedKept, ReceivedKept DEF StreamInv, TypeOK
<1>4. Allocated'
  BY ONLY StreamInv, <1>0, <1>1, <1>2, i \in Ids DEF StreamInv, TypeOK, Allocated, Addressed, SentToServer
<1>5. Unaccepted'
  BY ONLY StreamInv, <1>0, <1>1, <1>2, i \in Ids DEF StreamInv, TypeOK, Unaccepted, InputTask, Addressed,
       SentToServer
<1>6. InputCredit'
  BY ONLY StreamInv, <1>0, <1>1, <1>2, i \in Ids DEF StreamInv, TypeOK, InputCredit, InputTask, Numbers,
       SentToServer
<1>7. OutputCreditConserved'
  BY ONLY StreamInv, <1>0, <1>1, <1>2, i \in Ids DEF StreamInv, TypeOK, OutputCreditConserved, Live, Numbers,
       SentToServer
<1>8. QED
  BY <1>3, <1>4, <1>5, <1>6, <1>7 DEF Windows

\* BeginClose preserves the invariant.
LEMMA BeginCloseKeeps == ASSUME StreamInv, NEW i \in Ids, BeginClose(i) PROVE Windows'
<1> USE DEF StreamInv, TypeOK, clientVars, serverVars, linkVars
<1>0. Numbers /\ Addressed
  BY NumbersHold, FramesAddressed
<1>v. PICK v \in {"waiting", "writing"} : closer' = [closer EXCEPT ![i] = v]
  BY DEF BeginClose
<1>1. /\ UNCHANGED <<toServer, toClient, lost, ended, cliDone, streams, nextStream, opener, reader, writer, srvDone,
            slots, server, task, forwarder, waiter>>
  BY <1>v DEF BeginClose, Usable, Found
<1>2. ChildSet(i, child[i].accepted, child[i].send, child[i].recv, child[i].queue)
  <2>1. PICK r : r = [child[i] EXCEPT !.closing = TRUE]
    OBVIOUS
  <2>2. child \in [Ids -> Children] /\ child[i] \in Children /\ i \in Ids
    BY <1>0, <1>v, <1>1 DEF ClientTypeOK
  <2>4. r \in Children /\ r.accepted = child[i].accepted /\ r.send = child[i].send /\ r.recv = child[i].recv /\
        r.queue = child[i].queue
    BY ONLY <2>1, <2>2 DEF Children
  <2>5. child' = [child EXCEPT ![i] = r]
    BY <2>1, <1>v DEF BeginClose, Usable, Found
  <2>6. QED
    BY ONLY <2>2, <2>4, <2>5, PutPlace DEF ChildSet
<1>3. Put(closer, closer', i, v)
  BY <1>0, <1>v, <1>1, <1>2 DEF BeginClose, Usable, Found, Put, ClientTypeOK
<1>4. ServerTypeOK' /\ Allocated' /\ Chunks' /\ SlotsExact' /\ NoOrphanProcess' /\ Received'
  BY ONLY StreamInv, <1>1, ServerTypeOKKept, AllocatedKept, ChunksKept, SlotsExactKept, NoOrphanProcessKept,
       ReceivedKept DEF StreamInv, TypeOK
<1>5. ClientTypeOK'
  <2>1. closer' \in [Ids -> {"idle", "writing", "waiting", "returned"}]
    BY ONLY <1>0, <1>v, <1>1, <1>2, <1>3, v \in {"waiting", "writing"}, i \in Ids, ClientTypeOK DEF Put, ClientTypeOK
  <2>2. QED
    BY ONLY <2>1, <1>0, <1>v, <1>1, <1>2, <1>3, ClientTypeOK DEF ClientTypeOK, ChildSet
<1>6. Answers'
  BY ONLY StreamInv, <1>0, <1>v, <1>1, <1>2, <1>3, i \in Ids DEF StreamInv, TypeOK, Answers, Unanswered, Addressed,
       ChildSet, Put
<1>7. Unaccepted'
  BY ONLY StreamInv, <1>0, <1>v, <1>1, <1>2, <1>3, i \in Ids DEF StreamInv, TypeOK, Unaccepted, InputTask,
       Addressed, ChildSet, Put
<1>8. Buffered'
  BY ONLY StreamInv, <1>0, <1>v, <1>1, <1>2, <1>3, i \in Ids DEF StreamInv, TypeOK, Buffered, Taken, Numbers,
       ChildSet, Put
<1>9. InputCredit'
  BY ONLY StreamInv, <1>0, <1>v, <1>1, <1>2, <1>3, i \in Ids DEF StreamInv, TypeOK, InputCredit, InputTask, Numbers,
       ChildSet, Put
<1>10. OutputCreditConserved'
  BY ONLY StreamInv, <1>0, <1>v, <1>1, <1>2, <1>3, i \in Ids DEF StreamInv, TypeOK, OutputCreditConserved, Live,
       Numbers, ChildSet, Put
<1>11. QED
  BY <1>4, <1>5, <1>6, <1>7, <1>8, <1>9, <1>10 DEF Windows

\* WriteClose preserves the invariant.
LEMMA WriteCloseKeeps == ASSUME StreamInv, NEW i \in Ids, WriteClose(i) PROVE Windows'
<1> USE DEF StreamInv, TypeOK, clientVars, serverVars, linkVars
<1>0. Numbers /\ Addressed
  BY NumbersHold, FramesAddressed
<1>1. /\ UNCHANGED <<toClient, lost, ended, cliDone, streams, nextStream, child, opener, reader, writer, srvDone,
            slots, server, task, forwarder, waiter>>
  BY DEF WriteClose
<1>2. Put(closer, closer', i, "waiting")
  BY <1>0, <1>1 DEF WriteClose, Put, ClientTypeOK
<1>3. SentToServer("close", i, 0)
  <2>1. LinkTypeOK /\ "close" \in FrameTypes /\ i \in Ids /\ 0 \in 0..Window
    BY <1>0, <1>1, <1>2 DEF FrameTypes, Numbers
  <2>2. ClientSends(Frame("close", i, 0))
    BY DEF WriteClose
  <2>3. QED
    BY ONLY <2>1, <2>2, ClientSending
<1>4. ServerTypeOK' /\ Answers' /\ Chunks' /\ SlotsExact' /\ NoOrphanProcess' /\ Buffered' /\ Received'
  BY ONLY StreamInv, <1>1, ServerTypeOKKept, AnswersKept, ChunksKept, SlotsExactKept, NoOrphanProcessKept,
       BufferedKept, ReceivedKept DEF StreamInv, TypeOK
<1>5. ClientTypeOK'
  BY ONLY StreamInv, <1>0, <1>1, <1>2, <1>3, i \in Ids DEF StreamInv, TypeOK, ClientTypeOK, Numbers, Put,
       SentToServer
<1>6. Allocated'
  BY ONLY StreamInv, <1>0, <1>1, <1>2, <1>3, i \in Ids DEF StreamInv, TypeOK, Allocated, Addressed, Put,
       SentToServer
<1>7. Unaccepted'
  BY ONLY StreamInv, <1>0, <1>1, <1>2, <1>3, i \in Ids DEF StreamInv, TypeOK, Unaccepted, InputTask, Addressed, Put,
       SentToServer
<1>8. InputCredit'
  BY ONLY StreamInv, <1>0, <1>1, <1>2, <1>3, i \in Ids DEF StreamInv, TypeOK, InputCredit, InputTask, Numbers, Put,
       SentToServer
<1>9. OutputCreditConserved'
  BY ONLY StreamInv, <1>0, <1>1, <1>2, <1>3, i \in Ids DEF StreamInv, TypeOK, OutputCreditConserved, Live, Numbers,
       Put, SentToServer
<1>10. QED
  BY <1>4, <1>5, <1>6, <1>7, <1>8, <1>9 DEF Windows

\* CancelClose preserves the invariant.
LEMMA CancelCloseKeeps == ASSUME StreamInv, NEW i \in Ids, CancelClose(i), ~cliDone PROVE Windows'
<1> USE DEF StreamInv, TypeOK, clientVars, serverVars, linkVars
<1>0. Numbers /\ Addressed
  BY NumbersHold, FramesAddressed
<1>1. /\ UNCHANGED <<toServer, lost, nextStream, opener, reader, writer, srvDone, slots, server, task, forwarder,
            waiter>>
      /\ cliDone' = TRUE /\ streams' = {}
      /\ ~cliDone
  BY DEF CancelClose, Finish
<1>2. ChildrenDone
  <2>1. child' = [j \in Ids |-> IF j \in streams THEN [child[j] EXCEPT !.done = TRUE] ELSE child[j]]
    BY DEF CancelClose, Finish
  <2>2. child \in [Ids -> Children]
    BY DEF ClientTypeOK
  <2>3. QED
    BY ONLY <2>1, <2>2 DEF ChildrenDone, Children
<1>3. Under(toClient') = {} /\ \A t, j : InFlight(toClient', t, j) = 0
  BY UnderFrames, InFlightEmpty DEF CancelClose, Finish
<1>4. Put(closer, closer', i, "returned")
  BY <1>0, <1>1, <1>2, <1>3 DEF CancelClose, Finish, Put, ClientTypeOK
<1>5. ServerTypeOK' /\ Chunks' /\ SlotsExact' /\ NoOrphanProcess' /\ Received'
  BY ONLY StreamInv, <1>1, ServerTypeOKKept, ChunksKept, SlotsExactKept, NoOrphanProcessKept, ReceivedKept DEF
       StreamInv, TypeOK
<1>6. ClientTypeOK'
  BY ONLY StreamInv, <1>0, <1>1, <1>2, <1>3, <1>4, i \in Ids DEF StreamInv, TypeOK, ClientTypeOK, Numbers,
       ChildrenDone, Put
<1>7. Allocated'
  BY ONLY StreamInv, <1>0, <1>1, <1>2, <1>3, <1>4, i \in Ids DEF StreamInv, TypeOK, Allocated, Addressed,
       ChildrenDone, Put
<1>8. Answers'
  BY ONLY StreamInv, <1>0, <1>1, <1>2, <1>3, <1>4, i \in Ids DEF StreamInv, TypeOK, Answers, Unanswered, Addressed,
       ChildrenDone, Put
<1>9. Unaccepted'
  BY ONLY StreamInv, <1>0, <1>1, <1>2, <1>3, <1>4, i \in Ids DEF StreamInv, TypeOK, Unaccepted, InputTask,
       Addressed, ChildrenDone, Put
<1>10. Buffered'
  BY ONLY StreamInv, <1>0, <1>1, <1>2, <1>3, <1>4, i \in Ids DEF StreamInv, TypeOK, Buffered, Taken, Numbers,
       ChildrenDone, Put
<1>11. InputCredit'
  BY ONLY StreamInv, <1>0, <1>1, <1>2, <1>3, <1>4, i \in Ids DEF StreamInv, TypeOK, InputCredit, InputTask, Numbers,
       ChildrenDone, Put
<1>12. OutputCreditConserved'
  BY ONLY StreamInv, <1>0, <1>1, <1>2, <1>3, <1>4, i \in Ids DEF StreamInv, TypeOK, OutputCreditConserved, Live,
       Numbers, ChildrenDone, Put
<1>13. QED
  BY <1>5, <1>6, <1>7, <1>8, <1>9, <1>10, <1>11, <1>12 DEF Windows

\* Nor does it after the end of the parent.
LEMMA CancelCloseLateKeeps == ASSUME StreamInv, NEW i \in Ids, CancelClose(i), cliDone PROVE Windows'
<1> USE DEF StreamInv, TypeOK, clientVars, serverVars, linkVars
<1>0. Numbers /\ Addressed
  BY NumbersHold, FramesAddressed
<1>1. /\ UNCHANGED <<toServer, toClient, lost, ended, cliDone, streams, nextStream, child, opener, reader, writer,
            srvDone, slots, server, task, forwarder, waiter>>
      /\ cliDone
  BY DEF CancelClose
<1>2. Put(closer, closer', i, "returned")
  BY <1>0, <1>1 DEF CancelClose, Put, ClientTypeOK
<1>3. ServerTypeOK' /\ Allocated' /\ Answers' /\ Unaccepted' /\ Chunks' /\ SlotsExact' /\ NoOrphanProcess' /\
          Buffered' /\ Received' /\ InputCredit' /\ OutputCreditConserved'
  BY ONLY StreamInv, <1>1, ServerTypeOKKept, AllocatedKept, AnswersKept, UnacceptedKept, ChunksKept, SlotsExactKept,
       NoOrphanProcessKept, BufferedKept, ReceivedKept, InputCreditKept, OutputCreditConservedKept DEF StreamInv,
       TypeOK
<1>4. ClientTypeOK'
  BY ONLY StreamInv, <1>0, <1>1, <1>2, i \in Ids DEF StreamInv, TypeOK, ClientTypeOK, Numbers, Put
<1>5. QED
  BY <1>3, <1>4 DEF Windows

\* CloseReturns preserves the invariant.
LEMMA CloseReturnsKeeps == ASSUME StreamInv, NEW i \in Ids, CloseReturns(i) PROVE Windows'
<1> USE DEF StreamInv, TypeOK, clientVars, serverVars, linkVars
<1>0. Numbers /\ Addressed
  BY NumbersHold, FramesAddressed
<1>1. /\ UNCHANGED <<toServer, toClient, lost, ended, cliDone, streams, nextStream, child, opener, reader, writer,
            srvDone, slots, server, task, forwarder, waiter>>
  BY DEF CloseReturns
<1>2. Put(closer, closer', i, "returned")
  BY <1>0, <1>1 DEF CloseReturns, Put, ClientTypeOK
<1>3. ServerTypeOK' /\ Allocated' /\ Answers' /\ Unaccepted' /\ Chunks' /\ SlotsExact' /\ NoOrphanProcess' /\
          Buffered' /\ Received' /\ InputCredit' /\ OutputCreditConserved'
  BY ONLY StreamInv, <1>1, ServerTypeOKKept, AllocatedKept, AnswersKept, UnacceptedKept, ChunksKept, SlotsExactKept,
       NoOrphanProcessKept, BufferedKept, ReceivedKept, InputCreditKept, OutputCreditConservedKept DEF StreamInv,
       TypeOK
<1>4. ClientTypeOK'
  BY ONLY StreamInv, <1>0, <1>1, <1>2, i \in Ids DEF StreamInv, TypeOK, ClientTypeOK, Numbers, Put
<1>5. QED
  BY <1>3, <1>4 DEF Windows

\* CloseTimesOut preserves the invariant.
LEMMA CloseTimesOutKeeps == ASSUME StreamInv, NEW i \in Ids, CloseTimesOut(i) PROVE Windows'
<1> USE DEF StreamInv, TypeOK, clientVars, serverVars, linkVars
<1>0. Numbers /\ Addressed
  BY NumbersHold, FramesAddressed
<1>1. /\ UNCHANGED <<toServer, toClient, lost, ended, cliDone, streams, nextStream, child, opener, reader, writer,
            srvDone, slots, server, task, forwarder, waiter>>
  BY DEF CloseTimesOut
<1>2. Put(closer, closer', i, "idle")
  BY <1>0, <1>1 DEF CloseTimesOut, Put, ClientTypeOK
<1>3. ServerTypeOK' /\ Allocated' /\ Answers' /\ Unaccepted' /\ Chunks' /\ SlotsExact' /\ NoOrphanProcess' /\
          Buffered' /\ Received' /\ InputCredit' /\ OutputCreditConserved'
  BY ONLY StreamInv, <1>1, ServerTypeOKKept, AllocatedKept, AnswersKept, UnacceptedKept, ChunksKept, SlotsExactKept,
       NoOrphanProcessKept, BufferedKept, ReceivedKept, InputCreditKept, OutputCreditConservedKept DEF StreamInv,
       TypeOK
<1>4. ClientTypeOK'
  BY ONLY StreamInv, <1>0, <1>1, <1>2, i \in Ids DEF StreamInv, TypeOK, ClientTypeOK, Numbers, Put
<1>5. QED
  BY <1>3, <1>4 DEF Windows

\* Finishes preserves the invariant.
LEMMA FinishesKeeps == ASSUME StreamInv, Finishes PROVE Windows'
<1> USE DEF StreamInv, TypeOK, clientVars, serverVars, linkVars
<1>0. Numbers /\ Addressed
  BY NumbersHold, FramesAddressed
<1>1. /\ UNCHANGED <<toServer, lost, nextStream, opener, reader, writer, closer, srvDone, slots, server, task,
            forwarder, waiter>>
      /\ cliDone' = TRUE /\ streams' = {}
  BY DEF Finishes, Finish
<1>2. ChildrenDone
  <2>1. child' = [j \in Ids |-> IF j \in streams THEN [child[j] EXCEPT !.done = TRUE] ELSE child[j]]
    BY DEF Finishes, Finish
  <2>2. child \in [Ids -> Children]
    BY DEF ClientTypeOK
  <2>3. QED
    BY ONLY <2>1, <2>2 DEF ChildrenDone, Children
<1>3. Under(toClient') = {} /\ \A t, j : InFlight(toClient', t, j) = 0
  BY UnderFrames, InFlightEmpty DEF Finishes, Finish
<1>4. ServerTypeOK' /\ Chunks' /\ SlotsExact' /\ NoOrphanProcess' /\ Received'
  BY ONLY StreamInv, <1>1, ServerTypeOKKept, ChunksKept, SlotsExactKept, NoOrphanProcessKept, ReceivedKept DEF
       StreamInv, TypeOK
<1>5. ClientTypeOK'
  BY ONLY StreamInv, <1>0, <1>1, <1>2, <1>3 DEF StreamInv, TypeOK, ClientTypeOK, Numbers, ChildrenDone
<1>6. Allocated'
  BY ONLY StreamInv, <1>0, <1>1, <1>2, <1>3 DEF StreamInv, TypeOK, Allocated, Addressed, ChildrenDone
<1>7. Answers'
  BY ONLY StreamInv, <1>0, <1>1, <1>2, <1>3 DEF StreamInv, TypeOK, Answers, Unanswered, Addressed, ChildrenDone
<1>8. Unaccepted'
  BY ONLY StreamInv, <1>0, <1>1, <1>2, <1>3 DEF StreamInv, TypeOK, Unaccepted, InputTask, Addressed, ChildrenDone
<1>9. Buffered'
  BY ONLY StreamInv, <1>0, <1>1, <1>2, <1>3 DEF StreamInv, TypeOK, Buffered, Taken, Numbers, ChildrenDone
<1>10. InputCredit'
  BY ONLY StreamInv, <1>0, <1>1, <1>2, <1>3 DEF StreamInv, TypeOK, InputCredit, InputTask, Numbers, ChildrenDone
<1>11. OutputCreditConserved'
  BY ONLY StreamInv, <1>0, <1>1, <1>2, <1>3 DEF StreamInv, TypeOK, OutputCreditConserved, Live, Numbers,
       ChildrenDone
<1>12. QED
  BY <1>4, <1>5, <1>6, <1>7, <1>8, <1>9, <1>10, <1>11 DEF Windows

\* ReadsAccepted preserves the invariant.
LEMMA ReadsAcceptedKeeps == ASSUME StreamInv, NEW f \in Frames, ReadsAccepted(f) PROVE Windows'
<1> USE DEF StreamInv, TypeOK, clientVars, serverVars, linkVars
<1>0. Numbers /\ Addressed
  BY NumbersHold, FramesAddressed
<1>1. /\ UNCHANGED <<toServer, lost, ended, cliDone, streams, nextStream, opener, reader, writer, closer, srvDone,
            slots, server, task, forwarder, waiter>>
      /\ f.type = "accepted" /\ f.id \in streams /\ ~cliDone /\ ~child[f.id].accepted
  BY DEF ReadsAccepted, Reads
<1>2. ChildSet(f.id, TRUE, Window, child[f.id].recv, child[f.id].queue)
  <2>1. PICK r : r = [child[f.id] EXCEPT !.accepted = TRUE, !.send = Window]
    OBVIOUS
  <2>2. child \in [Ids -> Children] /\ child[f.id] \in Children /\ f.id \in Ids
    BY <1>0, <1>1 DEF ClientTypeOK, Frames
  <2>3. Window \in 0..MaxWindow
    BY ONLY <1>0, <1>1, <2>2, StreamInv, f \in Frames DEF StreamInv, Numbers, Buffered, Taken, Frames
  <2>4. r \in Children /\ r.accepted = TRUE /\ r.send = Window /\ r.recv = child[f.id].recv /\ r.queue =
        child[f.id].queue
    BY ONLY <2>1, <2>2, <2>3 DEF Children
  <2>5. child' = [child EXCEPT ![f.id] = r]
    BY <2>1 DEF ReadsAccepted, Reads
  <2>6. QED
    BY ONLY <2>2, <2>4, <2>5, PutPlace DEF ChildSet
<1>3. ReadByClient(f)
  <2>1. LinkTypeOK /\ toClient # <<>> /\ f = Head(toClient) /\ toClient' = Tail(toClient)
    BY DEF ReadsAccepted, Reads
  <2>2. QED
    BY ONLY <2>1, ClientReading
<1>4. ServerTypeOK' /\ Allocated' /\ Chunks' /\ SlotsExact' /\ NoOrphanProcess' /\ Received'
  BY ONLY StreamInv, <1>1, ServerTypeOKKept, AllocatedKept, ChunksKept, SlotsExactKept, NoOrphanProcessKept,
       ReceivedKept DEF StreamInv, TypeOK
<1>5. ClientTypeOK'
  BY ONLY StreamInv, <1>0, <1>1, <1>2, <1>3, f \in Frames DEF StreamInv, TypeOK, ClientTypeOK, Numbers, ChildSet,
       ReadByClient, Frames
<1>6. Answers'
  BY ONLY StreamInv, <1>0, <1>1, <1>2, <1>3, f \in Frames DEF StreamInv, TypeOK, Answers, Unanswered, Addressed,
       ChildSet, ReadByClient, Frames
<1>7. Unaccepted'
  BY ONLY StreamInv, <1>0, <1>1, <1>2, <1>3, f \in Frames DEF StreamInv, TypeOK, Unaccepted, InputTask, Addressed,
       ChildSet, ReadByClient, Frames
<1>8. Buffered'
  BY ONLY StreamInv, <1>0, <1>1, <1>2, <1>3, f \in Frames DEF StreamInv, TypeOK, Buffered, Taken, Numbers, ChildSet,
       ReadByClient, Frames
<1>9. InputCredit'
  <2>1. InFlight(toServer, "data", f.id) = 0 /\ InFlight(toClient, "window", f.id) = 0
    BY ONLY StreamInv, <1>1, InFlightNone DEF StreamInv, TypeOK, LinkTypeOK, Unaccepted
  <2>2. writer[f.id] = 0 /\ InputTask(f.id) = 0 /\ f.id \in Ids
    BY ONLY StreamInv, <1>0, <1>1, <1>2, <1>3, f \in Frames DEF StreamInv, Unaccepted, InputTask, Frames
  <2>3. QED
    BY ONLY <2>1, <2>2, StreamInv, <1>0, <1>1, <1>2, <1>3, f \in Frames DEF StreamInv, InputCredit, InputTask, Numbers, ChildSet, ReadByClient
<1>10. OutputCreditConserved'
  BY ONLY StreamInv, <1>0, <1>1, <1>2, <1>3, f \in Frames DEF StreamInv, TypeOK, OutputCreditConserved, Live,
       Numbers, ChildSet, ReadByClient, Frames
<1>11. QED
  BY <1>4, <1>5, <1>6, <1>7, <1>8, <1>9, <1>10 DEF Windows

\* ReadsData preserves the invariant.
LEMMA ReadsDataKeeps == ASSUME StreamInv, NEW f \in Frames, ReadsData(f) PROVE Windows'
<1> USE DEF StreamInv, TypeOK, clientVars, serverVars, linkVars
<1>0. Numbers /\ Addressed
  BY NumbersHold, FramesAddressed
<1>1. /\ UNCHANGED <<toServer, lost, ended, cliDone, streams, nextStream, opener, reader, writer, closer, srvDone,
            slots, server, task, forwarder, waiter>>
      /\ f.type = "data" /\ f.id \in streams /\ ~cliDone /\ child[f.id].accepted /\ f.n <= child[f.id].recv
  BY DEF ReadsData, Reads
<1>2. ChildSet(f.id, child[f.id].accepted, child[f.id].send, child[f.id].recv - f.n, child[f.id].queue + f.n)
  <2>1. PICK r : r = [child[f.id] EXCEPT !.recv = child[f.id].recv - f.n, !.queue = child[f.id].queue + f.n]
    OBVIOUS
  <2>2. child \in [Ids -> Children] /\ child[f.id] \in Children /\ f.id \in Ids
    BY <1>0, <1>1 DEF ClientTypeOK, Frames
  <2>3. child[f.id].recv - f.n \in 0..Window /\ child[f.id].queue + f.n \in 0..Window
    BY ONLY <1>0, <1>1, <2>2, StreamInv, f \in Frames DEF StreamInv, Numbers, Buffered, Taken, Frames
  <2>4. r \in Children /\ r.accepted = child[f.id].accepted /\ r.send = child[f.id].send /\ r.recv =
        child[f.id].recv - f.n /\ r.queue = child[f.id].queue + f.n
    BY ONLY <2>1, <2>2, <2>3 DEF Children
  <2>5. child' = [child EXCEPT ![f.id] = r]
    BY <2>1 DEF ReadsData, Reads
  <2>6. QED
    BY ONLY <2>2, <2>4, <2>5, PutPlace DEF ChildSet
<1>3. ReadByClient(f)
  <2>1. LinkTypeOK /\ toClient # <<>> /\ f = Head(toClient) /\ toClient' = Tail(toClient)
    BY DEF ReadsData, Reads
  <2>2. QED
    BY ONLY <2>1, ClientReading
<1>4. ServerTypeOK' /\ Allocated' /\ Chunks' /\ SlotsExact' /\ NoOrphanProcess' /\ Received'
  BY ONLY StreamInv, <1>1, ServerTypeOKKept, AllocatedKept, ChunksKept, SlotsExactKept, NoOrphanProcessKept,
       ReceivedKept DEF StreamInv, TypeOK
<1>5. ClientTypeOK'
  BY ONLY StreamInv, <1>0, <1>1, <1>2, <1>3, f \in Frames DEF StreamInv, TypeOK, ClientTypeOK, Numbers, ChildSet,
       ReadByClient, Frames
<1>6. Answers'
  BY ONLY StreamInv, <1>0, <1>1, <1>2, <1>3, f \in Frames DEF StreamInv, TypeOK, Answers, Unanswered, Addressed,
       ChildSet, ReadByClient, Frames
<1>7. Unaccepted'
  <2>1. f.id \in Ids /\ \A j \in Ids : child'[j].accepted = child[j].accepted
    BY ONLY <1>0, <1>1, <1>2, <1>3, f \in Frames DEF ChildSet, Frames
  <2>2. ASSUME NEW j \in Ids, ~child'[j].accepted
        PROVE  child'[j] = child[j]
    BY ONLY <2>1, <2>2, <1>0, <1>1, <1>2, <1>3 DEF ChildSet
  <2>3. QED
    BY ONLY <2>1, <2>2, StreamInv, <1>0, <1>1, <1>2, <1>3 DEF StreamInv, Unaccepted, Addressed, ReadByClient
<1>8. Buffered'
  BY ONLY StreamInv, <1>0, <1>1, <1>2, <1>3, f \in Frames DEF StreamInv, TypeOK, Buffered, Taken, Numbers, ChildSet,
       ReadByClient, Frames
<1>9. InputCredit'
  BY ONLY StreamInv, <1>0, <1>1, <1>2, <1>3, f \in Frames DEF StreamInv, TypeOK, InputCredit, InputTask, Numbers,
       ChildSet, ReadByClient, Frames
<1>10. OutputCreditConserved'
  BY ONLY StreamInv, <1>0, <1>1, <1>2, <1>3, f \in Frames DEF StreamInv, TypeOK, OutputCreditConserved, Live,
       Numbers, ChildSet, ReadByClient, Frames
<1>11. QED
  BY <1>4, <1>5, <1>6, <1>7, <1>8, <1>9, <1>10 DEF Windows

\* ReadsWindow preserves the invariant.
LEMMA ReadsWindowKeeps == ASSUME StreamInv, NEW f \in Frames, ReadsWindow(f) PROVE Windows'
<1> USE DEF StreamInv, TypeOK, clientVars, serverVars, linkVars
<1>0. Numbers /\ Addressed
  BY NumbersHold, FramesAddressed
<1>1. /\ UNCHANGED <<toServer, lost, ended, cliDone, streams, nextStream, opener, reader, writer, closer, srvDone,
            slots, server, task, forwarder, waiter>>
      /\ f.type = "window" /\ f.id \in streams /\ ~cliDone /\ child[f.id].accepted /\ f.n <= MaxWindow - child[f.id].send
  BY DEF ReadsWindow, Reads
<1>2. ChildSet(f.id, child[f.id].accepted, child[f.id].send + f.n, child[f.id].recv, child[f.id].queue)
  <2>1. PICK r : r = [child[f.id] EXCEPT !.send = child[f.id].send + f.n]
    OBVIOUS
  <2>2. child \in [Ids -> Children] /\ child[f.id] \in Children /\ f.id \in Ids
    BY <1>0, <1>1 DEF ClientTypeOK, Frames
  <2>3. child[f.id].send + f.n \in 0..MaxWindow
    BY ONLY <1>0, <1>1, <2>2, StreamInv, f \in Frames DEF StreamInv, Numbers, Buffered, Taken, Frames
  <2>4. r \in Children /\ r.accepted = child[f.id].accepted /\ r.send = child[f.id].send + f.n /\ r.recv =
        child[f.id].recv /\ r.queue = child[f.id].queue
    BY ONLY <2>1, <2>2, <2>3 DEF Children
  <2>5. child' = [child EXCEPT ![f.id] = r]
    BY <2>1 DEF ReadsWindow, Reads
  <2>6. QED
    BY ONLY <2>2, <2>4, <2>5, PutPlace DEF ChildSet
<1>3. ReadByClient(f)
  <2>1. LinkTypeOK /\ toClient # <<>> /\ f = Head(toClient) /\ toClient' = Tail(toClient)
    BY DEF ReadsWindow, Reads
  <2>2. QED
    BY ONLY <2>1, ClientReading
<1>4. ServerTypeOK' /\ Allocated' /\ Chunks' /\ SlotsExact' /\ NoOrphanProcess' /\ Received'
  BY ONLY StreamInv, <1>1, ServerTypeOKKept, AllocatedKept, ChunksKept, SlotsExactKept, NoOrphanProcessKept,
       ReceivedKept DEF StreamInv, TypeOK
<1>5. ClientTypeOK'
  BY ONLY StreamInv, <1>0, <1>1, <1>2, <1>3, f \in Frames DEF StreamInv, TypeOK, ClientTypeOK, Numbers, ChildSet,
       ReadByClient, Frames
<1>6. Answers'
  BY ONLY StreamInv, <1>0, <1>1, <1>2, <1>3, f \in Frames DEF StreamInv, TypeOK, Answers, Unanswered, Addressed,
       ChildSet, ReadByClient, Frames
<1>7. Unaccepted'
  <2>1. f.id \in Ids /\ \A j \in Ids : child'[j].accepted = child[j].accepted
    BY ONLY <1>0, <1>1, <1>2, <1>3, f \in Frames DEF ChildSet, Frames
  <2>2. ASSUME NEW j \in Ids, ~child'[j].accepted
        PROVE  child'[j] = child[j]
    BY ONLY <2>1, <2>2, <1>0, <1>1, <1>2, <1>3 DEF ChildSet
  <2>3. QED
    BY ONLY <2>1, <2>2, StreamInv, <1>0, <1>1, <1>2, <1>3 DEF StreamInv, Unaccepted, Addressed, ReadByClient
<1>8. Buffered'
  BY ONLY StreamInv, <1>0, <1>1, <1>2, <1>3, f \in Frames DEF StreamInv, TypeOK, Buffered, Taken, Numbers, ChildSet,
       ReadByClient, Frames
<1>9. InputCredit'
  BY ONLY StreamInv, <1>0, <1>1, <1>2, <1>3, f \in Frames DEF StreamInv, TypeOK, InputCredit, InputTask, Numbers,
       ChildSet, ReadByClient, Frames
<1>10. OutputCreditConserved'
  BY ONLY StreamInv, <1>0, <1>1, <1>2, <1>3, f \in Frames DEF StreamInv, TypeOK, OutputCreditConserved, Live,
       Numbers, ChildSet, ReadByClient, Frames
<1>11. QED
  BY <1>4, <1>5, <1>6, <1>7, <1>8, <1>9, <1>10 DEF Windows

\* ReadsEnd preserves the invariant.
LEMMA ReadsEndKeeps == ASSUME StreamInv, NEW f \in Frames, ReadsEnd(f) PROVE Windows'
<1> USE DEF StreamInv, TypeOK, clientVars, serverVars, linkVars
<1>0. Numbers /\ Addressed
  BY NumbersHold, FramesAddressed
<1>1. /\ UNCHANGED <<toServer, lost, ended, cliDone, nextStream, opener, reader, writer, closer, srvDone, slots,
            server, task, forwarder, waiter>>
      /\ f.type \in {"close", "error"} /\ f.id \in streams /\ ~cliDone
      /\ streams' = streams \ {f.id}
  BY DEF ReadsEnd, Reads
<1>2. ChildSet(f.id, child[f.id].accepted, child[f.id].send, child[f.id].recv, child[f.id].queue)
  <2>1. PICK r : r = [child[f.id] EXCEPT !.done = TRUE]
    OBVIOUS
  <2>2. child \in [Ids -> Children] /\ child[f.id] \in Children /\ f.id \in Ids
    BY <1>0, <1>1 DEF ClientTypeOK, Frames
  <2>4. r \in Children /\ r.accepted = child[f.id].accepted /\ r.send = child[f.id].send /\ r.recv =
        child[f.id].recv /\ r.queue = child[f.id].queue
    BY ONLY <2>1, <2>2 DEF Children
  <2>5. child' = [child EXCEPT ![f.id] = r]
    BY <2>1 DEF ReadsEnd, Reads
  <2>6. QED
    BY ONLY <2>2, <2>4, <2>5, PutPlace DEF ChildSet
<1>3. ReadByClient(f)
  <2>1. LinkTypeOK /\ toClient # <<>> /\ f = Head(toClient) /\ toClient' = Tail(toClient)
    BY DEF ReadsEnd, Reads
  <2>2. QED
    BY ONLY <2>1, ClientReading
<1>4. ServerTypeOK' /\ Chunks' /\ SlotsExact' /\ NoOrphanProcess' /\ Received'
  BY ONLY StreamInv, <1>1, ServerTypeOKKept, ChunksKept, SlotsExactKept, NoOrphanProcessKept, ReceivedKept DEF
       StreamInv, TypeOK
<1>5. ClientTypeOK'
  BY ONLY StreamInv, <1>0, <1>1, <1>2, <1>3, f \in Frames DEF StreamInv, TypeOK, ClientTypeOK, Numbers, ChildSet,
       ReadByClient, Frames
<1>6. Allocated'
  BY ONLY StreamInv, <1>0, <1>1, <1>2, <1>3, f \in Frames DEF StreamInv, TypeOK, Allocated, Addressed, ChildSet,
       ReadByClient, Frames
<1>7. Answers'
  BY ONLY StreamInv, <1>0, <1>1, <1>2, <1>3, f \in Frames DEF StreamInv, TypeOK, Answers, Unanswered, Addressed,
       ChildSet, ReadByClient, Frames
<1>8. Unaccepted'
  BY ONLY StreamInv, <1>0, <1>1, <1>2, <1>3, f \in Frames DEF StreamInv, TypeOK, Unaccepted, InputTask, Addressed,
       ChildSet, ReadByClient, Frames
<1>9. Buffered'
  BY ONLY StreamInv, <1>0, <1>1, <1>2, <1>3, f \in Frames DEF StreamInv, TypeOK, Buffered, Taken, Numbers, ChildSet,
       ReadByClient, Frames
<1>10. InputCredit'
  BY ONLY StreamInv, <1>0, <1>1, <1>2, <1>3, f \in Frames DEF StreamInv, TypeOK, InputCredit, InputTask, Numbers,
       ChildSet, ReadByClient, Frames
<1>11. OutputCreditConserved'
  BY ONLY StreamInv, <1>0, <1>1, <1>2, <1>3, f \in Frames DEF StreamInv, TypeOK, OutputCreditConserved, Live,
       Numbers, ChildSet, ReadByClient, Frames
<1>12. QED
  BY <1>4, <1>5, <1>6, <1>7, <1>8, <1>9, <1>10, <1>11 DEF Windows

\* Returns preserves the invariant.
LEMMA ReturnsKeeps == ASSUME StreamInv, Returns PROVE Windows'
<1> USE DEF StreamInv, TypeOK, clientVars, serverVars, linkVars
<1>0. Numbers /\ Addressed
  BY NumbersHold, FramesAddressed
<1>1. /\ UNCHANGED <<toClient, lost, cliDone, streams, nextStream, child, opener, reader, writer, closer, forwarder,
            waiter>>
      /\ srvDone' = TRUE /\ slots' = 0
      /\ task' = [step |-> "idle", id |-> 0, n |-> 0]
  BY DEF Returns, Return, Idle
<1>2. EntriesClosed
  <2>1. server' = [j \in Ids |-> Closed(server[j])]
    BY DEF Returns, Return
  <2>2. server \in [Ids -> Entries]
    BY DEF ServerTypeOK
  <2>3. \A e \in Entries : /\ Closed(e) \in Entries
                           /\ Closed(e).state \in {"none", "closed"} /\ Closed(e).pty \in {"none", "closed"}
                           /\ Closed(e).state = "none" <=> e.state = "none"
                           /\ Closed(e).recv = e.recv
    BY DEF Closed, Entries
  <2>4. \A j \in Ids : server[j] \in Entries /\ server'[j] = Closed(server[j])
    BY ONLY <2>1, <2>2
  <2>5. server' \in [Ids -> Entries]
    BY ONLY <2>1, <2>2, <2>3
  <2>6. QED
    BY ONLY <2>3, <2>4, <2>5 DEF EntriesClosed
<1>3. Under(toServer') = {} /\ \A t, j : InFlight(toServer', t, j) = 0
  BY UnderFrames, InFlightEmpty DEF Returns, Return, Idle
<1>4. ClientTypeOK' /\ Chunks' /\ Buffered'
  BY ONLY StreamInv, <1>1, ClientTypeOKKept, ChunksKept, BufferedKept DEF StreamInv, TypeOK
<1>5. ServerTypeOK'
  BY ONLY StreamInv, <1>0, <1>1, <1>2, <1>3, TypedStreamsAssumption DEF StreamInv, TypeOK, ServerTypeOK, Numbers,
       EntriesClosed
<1>6. Allocated'
  BY ONLY StreamInv, <1>0, <1>1, <1>2, <1>3 DEF StreamInv, TypeOK, Allocated, Addressed, EntriesClosed
<1>7. Answers'
  BY ONLY StreamInv, <1>0, <1>1, <1>2, <1>3 DEF StreamInv, TypeOK, Answers, Unanswered, Addressed, EntriesClosed
<1>8. Unaccepted'
  BY ONLY StreamInv, <1>0, <1>1, <1>2, <1>3 DEF StreamInv, TypeOK, Unaccepted, InputTask, Addressed, EntriesClosed
<1>9. SlotsExact'
  <2>1. Holders(server') = {}
    BY ONLY <1>0, <1>1, <1>2, <1>3, StreamInv DEF StreamInv, Holders, EntriesClosed, Numbers
  <2>2. slots = Cardinality(Holders(server))
    BY DEF SlotsExact, Holders
  <2>3. slots' = Cardinality(Holders(server'))
    BY ONLY <2>1, <2>2, <1>1, HoldersCounted, FS_EmptySet
  <2>4. QED
    BY ONLY <2>3 DEF SlotsExact, Holders
<1>10. NoOrphanProcess'
  BY ONLY StreamInv, <1>0, <1>1, <1>2, <1>3 DEF StreamInv, TypeOK, NoOrphanProcess, Numbers, EntriesClosed
<1>11. Received'
  BY ONLY StreamInv, <1>0, <1>1, <1>2, <1>3 DEF StreamInv, TypeOK, Received, InputTask, Numbers, EntriesClosed
<1>12. InputCredit'
  BY ONLY StreamInv, <1>0, <1>1, <1>2, <1>3 DEF StreamInv, TypeOK, InputCredit, InputTask, Numbers, EntriesClosed
<1>13. OutputCreditConserved'
  BY ONLY StreamInv, <1>0, <1>1, <1>2, <1>3 DEF StreamInv, TypeOK, OutputCreditConserved, Live, Numbers,
       EntriesClosed
<1>14. QED
  BY <1>4, <1>5, <1>6, <1>7, <1>8, <1>9, <1>10, <1>11, <1>12, <1>13 DEF Windows

\* TakesOpen preserves the invariant.
LEMMA TakesOpenKeeps == ASSUME StreamInv, NEW f \in Frames, TakesOpen(f) PROVE Windows'
<1> USE DEF StreamInv, TypeOK, clientVars, serverVars, linkVars
<1>0. Numbers /\ Addressed
  BY NumbersHold, FramesAddressed
<1>1. /\ UNCHANGED <<toClient, lost, ended, cliDone, streams, nextStream, child, opener, reader, writer, closer,
            srvDone, forwarder, waiter>>
      /\ ~srvDone /\ task.step = "idle" /\ f.type = "open" /\ server[f.id].state = "none"
      /\ slots < ServerLimit /\ slots' = slots + 1
      /\ task' = [step |-> "starting", id |-> f.id, n |-> 0]
  BY DEF TakesOpen, Takes, Dispatch, HasRoom
<1>2. EntrySet(f.id, "opening", server[f.id].pty, server[f.id].send, server[f.id].recv)
  <2>1. PICK r : r = [server[f.id] EXCEPT !.state = "opening"]
    OBVIOUS
  <2>2. server \in [Ids -> Entries] /\ server[f.id] \in Entries /\ f.id \in Ids
    BY <1>0, <1>1 DEF ServerTypeOK, Frames
  <2>4. r \in Entries /\ r.state = "opening" /\ r.pty = server[f.id].pty /\ r.send = server[f.id].send /\ r.recv =
        server[f.id].recv
    BY ONLY <2>1, <2>2 DEF Entries
  <2>5. server' = [server EXCEPT ![f.id] = r]
    BY <2>1 DEF TakesOpen, Takes, Dispatch, HasRoom
  <2>6. QED
    BY ONLY <2>2, <2>4, <2>5, PutPlace DEF EntrySet
<1>3. ReadByServer(f)
  <2>1. LinkTypeOK /\ toServer # <<>> /\ f = Head(toServer) /\ toServer' = Tail(toServer)
    BY DEF TakesOpen, Takes, Dispatch, HasRoom
  <2>2. QED
    BY ONLY <2>1, ServerReading
<1>4. ClientTypeOK' /\ Chunks' /\ Buffered'
  BY ONLY StreamInv, <1>1, ClientTypeOKKept, ChunksKept, BufferedKept DEF StreamInv, TypeOK
<1>5. ServerTypeOK'
  BY ONLY StreamInv, <1>0, <1>1, <1>2, <1>3, f \in Frames, TypedStreamsAssumption DEF StreamInv, TypeOK,
       ServerTypeOK, Numbers, EntrySet, ReadByServer, Frames
<1>6. Allocated'
  BY ONLY StreamInv, <1>0, <1>1, <1>2, <1>3, f \in Frames DEF StreamInv, TypeOK, Allocated, Addressed, EntrySet,
       ReadByServer, Frames
<1>7. Answers'
  BY ONLY StreamInv, <1>0, <1>1, <1>2, <1>3, f \in Frames DEF StreamInv, TypeOK, Answers, Unanswered, Addressed,
       EntrySet, ReadByServer, Frames
<1>8. Unaccepted'
  BY ONLY StreamInv, <1>0, <1>1, <1>2, <1>3, f \in Frames DEF StreamInv, TypeOK, Unaccepted, InputTask, Addressed,
       EntrySet, ReadByServer, Frames
<1>9. SlotsExact'
  <2>1. Holders(server') = Holders(server) \cup {f.id} /\ f.id \notin Holders(server)
    BY ONLY <1>0, <1>1, <1>2, <1>3, StreamInv, f \in Frames DEF StreamInv, Holders, EntrySet, Numbers, Frames
  <2>2. slots = Cardinality(Holders(server))
    BY DEF SlotsExact, Holders
  <2>3. slots' = Cardinality(Holders(server'))
    BY ONLY <2>1, <2>2, <1>1, HoldersCounted
  <2>4. QED
    BY ONLY <2>3 DEF SlotsExact, Holders
<1>10. NoOrphanProcess'
  BY ONLY StreamInv, <1>0, <1>1, <1>2, <1>3, f \in Frames DEF StreamInv, TypeOK, NoOrphanProcess, Numbers, EntrySet,
       ReadByServer, Frames
<1>11. Received'
  BY ONLY StreamInv, <1>0, <1>1, <1>2, <1>3, f \in Frames DEF StreamInv, TypeOK, Received, InputTask, Numbers,
       EntrySet, ReadByServer, Frames
<1>12. InputCredit'
  BY ONLY StreamInv, <1>0, <1>1, <1>2, <1>3, f \in Frames DEF StreamInv, TypeOK, InputCredit, InputTask, Numbers,
       EntrySet, ReadByServer, Frames
<1>13. OutputCreditConserved'
  BY ONLY StreamInv, <1>0, <1>1, <1>2, <1>3, f \in Frames DEF StreamInv, TypeOK, OutputCreditConserved, Live,
       Numbers, EntrySet, ReadByServer, Frames
<1>14. QED
  BY <1>4, <1>5, <1>6, <1>7, <1>8, <1>9, <1>10, <1>11, <1>12, <1>13 DEF Windows

\* TakesData preserves the invariant.
LEMMA TakesDataKeeps == ASSUME StreamInv, NEW f \in Frames, TakesData(f) PROVE Windows'
<1> USE DEF StreamInv, TypeOK, clientVars, serverVars, linkVars
<1>0. Numbers /\ Addressed
  BY NumbersHold, FramesAddressed
<1>1. /\ UNCHANGED <<toClient, lost, ended, cliDone, streams, nextStream, child, opener, reader, writer, closer,
            srvDone, slots, forwarder, waiter>>
      /\ ~srvDone /\ task.step = "idle" /\ f.type = "data" /\ server[f.id].state = "open" /\ f.n <= server[f.id].recv
      /\ task' = [step |-> "writing", id |-> f.id, n |-> f.n]
  BY DEF TakesData, Takes, Dispatch
<1>2. EntrySet(f.id, server[f.id].state, server[f.id].pty, server[f.id].send, server[f.id].recv - f.n)
  <2>1. PICK r : r = [server[f.id] EXCEPT !.recv = server[f.id].recv - f.n]
    OBVIOUS
  <2>2. server \in [Ids -> Entries] /\ server[f.id] \in Entries /\ f.id \in Ids
    BY <1>0, <1>1 DEF ServerTypeOK, Frames
  <2>3. server[f.id].recv - f.n \in 0..MaxWindow
    BY ONLY <1>0, <1>1, <2>2, StreamInv, f \in Frames DEF StreamInv, Numbers, Received, InputTask, Frames
  <2>4. r \in Entries /\ r.state = server[f.id].state /\ r.pty = server[f.id].pty /\ r.send = server[f.id].send /\
        r.recv = server[f.id].recv - f.n
    BY ONLY <2>1, <2>2, <2>3 DEF Entries
  <2>5. server' = [server EXCEPT ![f.id] = r]
    BY <2>1 DEF TakesData, Takes, Dispatch
  <2>6. QED
    BY ONLY <2>2, <2>4, <2>5, PutPlace DEF EntrySet
<1>3. ReadByServer(f)
  <2>1. LinkTypeOK /\ toServer # <<>> /\ f = Head(toServer) /\ toServer' = Tail(toServer)
    BY DEF TakesData, Takes, Dispatch
  <2>2. QED
    BY ONLY <2>1, ServerReading
<1>4. ClientTypeOK' /\ Chunks' /\ Buffered'
  BY ONLY StreamInv, <1>1, ClientTypeOKKept, ChunksKept, BufferedKept DEF StreamInv, TypeOK
<1>5. ServerTypeOK'
  BY ONLY StreamInv, <1>0, <1>1, <1>2, <1>3, f \in Frames, TypedStreamsAssumption DEF StreamInv, TypeOK,
       ServerTypeOK, Numbers, EntrySet, ReadByServer, Frames
<1>6. Allocated'
  BY ONLY StreamInv, <1>0, <1>1, <1>2, <1>3, f \in Frames DEF StreamInv, TypeOK, Allocated, Addressed, EntrySet,
       ReadByServer, Frames
<1>7. Answers'
  BY ONLY StreamInv, <1>0, <1>1, <1>2, <1>3, f \in Frames DEF StreamInv, TypeOK, Answers, Unanswered, Addressed,
       EntrySet, ReadByServer, Frames
<1>8. Unaccepted'
  BY ONLY StreamInv, <1>0, <1>1, <1>2, <1>3, f \in Frames DEF StreamInv, TypeOK, Unaccepted, InputTask, Addressed,
       EntrySet, ReadByServer, Frames
<1>9. SlotsExact'
  <2>1. Holders(server') = Holders(server)
    BY ONLY <1>0, <1>1, <1>2, <1>3, StreamInv, f \in Frames DEF StreamInv, Holders, EntrySet, Numbers, Frames
  <2>2. slots = Cardinality(Holders(server))
    BY DEF SlotsExact, Holders
  <2>3. slots' = Cardinality(Holders(server'))
    BY ONLY <2>1, <2>2, <1>1, HoldersCounted
  <2>4. QED
    BY ONLY <2>3 DEF SlotsExact, Holders
<1>10. NoOrphanProcess'
  BY ONLY StreamInv, <1>0, <1>1, <1>2, <1>3, f \in Frames DEF StreamInv, TypeOK, NoOrphanProcess, Numbers, EntrySet,
       ReadByServer, Frames
<1>11. Received'
  BY ONLY StreamInv, <1>0, <1>1, <1>2, <1>3, f \in Frames DEF StreamInv, TypeOK, Received, InputTask, Numbers,
       EntrySet, ReadByServer, Frames
<1>12. InputCredit'
  BY ONLY StreamInv, <1>0, <1>1, <1>2, <1>3, f \in Frames DEF StreamInv, TypeOK, InputCredit, InputTask, Numbers,
       EntrySet, ReadByServer, Frames
<1>13. OutputCreditConserved'
  BY ONLY StreamInv, <1>0, <1>1, <1>2, <1>3, f \in Frames DEF StreamInv, TypeOK, OutputCreditConserved, Live,
       Numbers, EntrySet, ReadByServer, Frames
<1>14. QED
  BY <1>4, <1>5, <1>6, <1>7, <1>8, <1>9, <1>10, <1>11, <1>12, <1>13 DEF Windows

\* TakesWindow preserves the invariant.
LEMMA TakesWindowKeeps == ASSUME StreamInv, NEW f \in Frames, TakesWindow(f) PROVE Windows'
<1> USE DEF StreamInv, TypeOK, clientVars, serverVars, linkVars
<1>0. Numbers /\ Addressed
  BY NumbersHold, FramesAddressed
<1>1. /\ UNCHANGED <<toClient, lost, ended, cliDone, streams, nextStream, child, opener, reader, writer, closer,
            srvDone, slots, forwarder, waiter>>
      /\ ~srvDone /\ task.step = "idle" /\ f.type = "window" /\ server[f.id].state = "open" /\ server[f.id].send <= MaxWindow - f.n
      /\ task' = [step |-> "idle", id |-> 0, n |-> 0]
  BY DEF TakesWindow, Takes, Dispatch
<1>2. EntrySet(f.id, server[f.id].state, server[f.id].pty, server[f.id].send + f.n, server[f.id].recv)
  <2>1. PICK r : r = [server[f.id] EXCEPT !.send = server[f.id].send + f.n]
    OBVIOUS
  <2>2. server \in [Ids -> Entries] /\ server[f.id] \in Entries /\ f.id \in Ids
    BY <1>0, <1>1 DEF ServerTypeOK, Frames
  <2>3. server[f.id].send + f.n \in 0..MaxWindow
    BY ONLY <1>0, <1>1, <2>2, StreamInv, f \in Frames DEF StreamInv, Numbers, Received, InputTask, Frames
  <2>4. r \in Entries /\ r.state = server[f.id].state /\ r.pty = server[f.id].pty /\ r.send = server[f.id].send +
        f.n /\ r.recv = server[f.id].recv
    BY ONLY <2>1, <2>2, <2>3 DEF Entries
  <2>5. server' = [server EXCEPT ![f.id] = r]
    BY <2>1 DEF TakesWindow, Takes, Dispatch
  <2>6. QED
    BY ONLY <2>2, <2>4, <2>5, PutPlace DEF EntrySet
<1>3. ReadByServer(f)
  <2>1. LinkTypeOK /\ toServer # <<>> /\ f = Head(toServer) /\ toServer' = Tail(toServer)
    BY DEF TakesWindow, Takes, Dispatch
  <2>2. QED
    BY ONLY <2>1, ServerReading
<1>4. ClientTypeOK' /\ Chunks' /\ Buffered'
  BY ONLY StreamInv, <1>1, ClientTypeOKKept, ChunksKept, BufferedKept DEF StreamInv, TypeOK
<1>5. ServerTypeOK'
  BY ONLY StreamInv, <1>0, <1>1, <1>2, <1>3, f \in Frames, TypedStreamsAssumption DEF StreamInv, TypeOK,
       ServerTypeOK, Numbers, EntrySet, ReadByServer, Frames
<1>6. Allocated'
  BY ONLY StreamInv, <1>0, <1>1, <1>2, <1>3, f \in Frames DEF StreamInv, TypeOK, Allocated, Addressed, EntrySet,
       ReadByServer, Frames
<1>7. Answers'
  BY ONLY StreamInv, <1>0, <1>1, <1>2, <1>3, f \in Frames DEF StreamInv, TypeOK, Answers, Unanswered, Addressed,
       EntrySet, ReadByServer, Frames
<1>8. Unaccepted'
  BY ONLY StreamInv, <1>0, <1>1, <1>2, <1>3, f \in Frames DEF StreamInv, TypeOK, Unaccepted, InputTask, Addressed,
       EntrySet, ReadByServer, Frames
<1>9. SlotsExact'
  <2>1. Holders(server') = Holders(server)
    BY ONLY <1>0, <1>1, <1>2, <1>3, StreamInv, f \in Frames DEF StreamInv, Holders, EntrySet, Numbers, Frames
  <2>2. slots = Cardinality(Holders(server))
    BY DEF SlotsExact, Holders
  <2>3. slots' = Cardinality(Holders(server'))
    BY ONLY <2>1, <2>2, <1>1, HoldersCounted
  <2>4. QED
    BY ONLY <2>3 DEF SlotsExact, Holders
<1>10. NoOrphanProcess'
  BY ONLY StreamInv, <1>0, <1>1, <1>2, <1>3, f \in Frames DEF StreamInv, TypeOK, NoOrphanProcess, Numbers, EntrySet,
       ReadByServer, Frames
<1>11. Received'
  BY ONLY StreamInv, <1>0, <1>1, <1>2, <1>3, f \in Frames DEF StreamInv, TypeOK, Received, InputTask, Numbers,
       EntrySet, ReadByServer, Frames
<1>12. InputCredit'
  BY ONLY StreamInv, <1>0, <1>1, <1>2, <1>3, f \in Frames DEF StreamInv, TypeOK, InputCredit, InputTask, Numbers,
       EntrySet, ReadByServer, Frames
<1>13. OutputCreditConserved'
  BY ONLY StreamInv, <1>0, <1>1, <1>2, <1>3, f \in Frames DEF StreamInv, TypeOK, OutputCreditConserved, Live,
       Numbers, EntrySet, ReadByServer, Frames
<1>14. QED
  BY <1>4, <1>5, <1>6, <1>7, <1>8, <1>9, <1>10, <1>11, <1>12, <1>13 DEF Windows

\* TakesResize preserves the invariant.
LEMMA TakesResizeKeeps == ASSUME StreamInv, NEW f \in Frames, TakesResize(f) PROVE Windows'
<1> USE DEF StreamInv, TypeOK, clientVars, serverVars, linkVars
<1>0. Numbers /\ Addressed
  BY NumbersHold, FramesAddressed
<1>1. /\ UNCHANGED <<toClient, lost, ended, cliDone, streams, nextStream, child, opener, reader, writer, closer,
            srvDone, slots, server, forwarder, waiter>>
      /\ ~srvDone /\ task.step = "idle" /\ f.type = "resize"
      /\ task' = [step |-> "idle", id |-> 0, n |-> 0]
  BY DEF TakesResize, Takes, Dispatch
<1>2. ReadByServer(f)
  <2>1. LinkTypeOK /\ toServer # <<>> /\ f = Head(toServer) /\ toServer' = Tail(toServer)
    BY DEF TakesResize, Takes, Dispatch
  <2>2. QED
    BY ONLY <2>1, ServerReading
<1>3. ClientTypeOK' /\ Chunks' /\ SlotsExact' /\ NoOrphanProcess' /\ Buffered'
  BY ONLY StreamInv, <1>1, ClientTypeOKKept, ChunksKept, SlotsExactKept, NoOrphanProcessKept, BufferedKept DEF
       StreamInv, TypeOK
<1>4. ServerTypeOK'
  BY ONLY StreamInv, <1>0, <1>1, <1>2, f \in Frames, TypedStreamsAssumption DEF StreamInv, TypeOK, ServerTypeOK,
       Numbers, ReadByServer, Frames
<1>5. Allocated'
  BY ONLY StreamInv, <1>0, <1>1, <1>2, f \in Frames DEF StreamInv, TypeOK, Allocated, Addressed, ReadByServer,
       Frames
<1>6. Answers'
  BY ONLY StreamInv, <1>0, <1>1, <1>2, f \in Frames DEF StreamInv, TypeOK, Answers, Unanswered, Addressed,
       ReadByServer, Frames
<1>7. Unaccepted'
  BY ONLY StreamInv, <1>0, <1>1, <1>2, f \in Frames DEF StreamInv, TypeOK, Unaccepted, InputTask, Addressed,
       ReadByServer, Frames
<1>8. Received'
  BY ONLY StreamInv, <1>0, <1>1, <1>2, f \in Frames DEF StreamInv, TypeOK, Received, InputTask, Numbers,
       ReadByServer, Frames
<1>9. InputCredit'
  BY ONLY StreamInv, <1>0, <1>1, <1>2, f \in Frames DEF StreamInv, TypeOK, InputCredit, InputTask, Numbers,
       ReadByServer, Frames
<1>10. OutputCreditConserved'
  BY ONLY StreamInv, <1>0, <1>1, <1>2, f \in Frames DEF StreamInv, TypeOK, OutputCreditConserved, Live, Numbers,
       ReadByServer, Frames
<1>11. QED
  BY <1>3, <1>4, <1>5, <1>6, <1>7, <1>8, <1>9, <1>10 DEF Windows

\* TakesClosing preserves the invariant.
LEMMA TakesClosingKeeps == ASSUME StreamInv, NEW f \in Frames, TakesClosing(f) PROVE Windows'
<1> USE DEF StreamInv, TypeOK, clientVars, serverVars, linkVars
<1>0. Numbers /\ Addressed
  BY NumbersHold, FramesAddressed
<1>1. /\ UNCHANGED <<toClient, lost, ended, cliDone, streams, nextStream, child, opener, reader, writer, closer,
            srvDone, forwarder, waiter>>
      /\ ~srvDone /\ task.step = "idle" /\ f.type \in {"resize", "close"} /\ server[f.id].state = "open"
      /\ slots' = slots - 1
      /\ task' = [step |-> IF f.type = "resize" THEN "reporting" ELSE "acking", id |-> f.id, n |-> 0]
  BY DEF TakesClosing, Takes, Dispatch, CloseEntry
<1>2. EntrySet(f.id, "closed", "closed", server[f.id].send, server[f.id].recv)
  <2>1. PICK r : r = [server[f.id] EXCEPT !.state = "closed", !.pty = "closed"]
    OBVIOUS
  <2>2. server \in [Ids -> Entries] /\ server[f.id] \in Entries /\ f.id \in Ids
    BY <1>0, <1>1 DEF ServerTypeOK, Frames
  <2>4. r \in Entries /\ r.state = "closed" /\ r.pty = "closed" /\ r.send = server[f.id].send /\ r.recv =
        server[f.id].recv
    BY ONLY <2>1, <2>2 DEF Entries
  <2>5. server' = [server EXCEPT ![f.id] = r]
    BY <2>1 DEF TakesClosing, Takes, Dispatch, CloseEntry
  <2>6. QED
    BY ONLY <2>2, <2>4, <2>5, PutPlace DEF EntrySet
<1>3. ReadByServer(f)
  <2>1. LinkTypeOK /\ toServer # <<>> /\ f = Head(toServer) /\ toServer' = Tail(toServer)
    BY DEF TakesClosing, Takes, Dispatch, CloseEntry
  <2>2. QED
    BY ONLY <2>1, ServerReading
<1>4. ClientTypeOK' /\ Chunks' /\ Buffered'
  BY ONLY StreamInv, <1>1, ClientTypeOKKept, ChunksKept, BufferedKept DEF StreamInv, TypeOK
<1>5. ServerTypeOK'
  BY ONLY StreamInv, <1>0, <1>1, <1>2, <1>3, f \in Frames, TypedStreamsAssumption, SlotsPositive DEF StreamInv,
       TypeOK, ServerTypeOK, Numbers, EntrySet, ReadByServer, Frames
<1>6. Allocated'
  BY ONLY StreamInv, <1>0, <1>1, <1>2, <1>3, f \in Frames DEF StreamInv, TypeOK, Allocated, Addressed, EntrySet,
       ReadByServer, Frames
<1>7. Answers'
  BY ONLY StreamInv, <1>0, <1>1, <1>2, <1>3, f \in Frames DEF StreamInv, TypeOK, Answers, Unanswered, Addressed,
       EntrySet, ReadByServer, Frames
<1>8. Unaccepted'
  BY ONLY StreamInv, <1>0, <1>1, <1>2, <1>3, f \in Frames DEF StreamInv, TypeOK, Unaccepted, InputTask, Addressed,
       EntrySet, ReadByServer, Frames
<1>9. SlotsExact'
  <2>1. Holders(server') = Holders(server) \ {f.id} /\ f.id \in Holders(server)
    BY ONLY <1>0, <1>1, <1>2, <1>3, StreamInv, f \in Frames DEF StreamInv, Holders, EntrySet, Numbers, Frames
  <2>2. slots = Cardinality(Holders(server))
    BY DEF SlotsExact, Holders
  <2>3. slots' = Cardinality(Holders(server'))
    BY ONLY <2>1, <2>2, <1>1, HoldersCounted
  <2>4. QED
    BY ONLY <2>3 DEF SlotsExact, Holders
<1>10. NoOrphanProcess'
  BY ONLY StreamInv, <1>0, <1>1, <1>2, <1>3, f \in Frames DEF StreamInv, TypeOK, NoOrphanProcess, Numbers, EntrySet,
       ReadByServer, Frames
<1>11. Received'
  BY ONLY StreamInv, <1>0, <1>1, <1>2, <1>3, f \in Frames DEF StreamInv, TypeOK, Received, InputTask, Numbers,
       EntrySet, ReadByServer, Frames
<1>12. InputCredit'
  BY ONLY StreamInv, <1>0, <1>1, <1>2, <1>3, f \in Frames DEF StreamInv, TypeOK, InputCredit, InputTask, Numbers,
       EntrySet, ReadByServer, Frames
<1>13. OutputCreditConserved'
  BY ONLY StreamInv, <1>0, <1>1, <1>2, <1>3, f \in Frames DEF StreamInv, TypeOK, OutputCreditConserved, Live,
       Numbers, EntrySet, ReadByServer, Frames
<1>14. QED
  BY <1>4, <1>5, <1>6, <1>7, <1>8, <1>9, <1>10, <1>11, <1>12, <1>13 DEF Windows

\* StartPTY preserves the invariant.
LEMMA StartPTYKeeps == ASSUME StreamInv, StartPTY, task'.step = "accepting" PROVE Windows'
<1> USE DEF StreamInv, TypeOK, clientVars, serverVars, linkVars
<1>0. Numbers /\ Addressed
  BY NumbersHold, FramesAddressed
<1>i. PICK i : i = task.id
  OBVIOUS
<1>1. /\ UNCHANGED <<toServer, toClient, lost, ended, cliDone, streams, nextStream, child, opener, reader, writer,
            closer, srvDone, slots, forwarder, waiter>>
      /\ task.step = "starting" /\ task' = [task EXCEPT !.step = "accepting"]
  BY <1>i DEF StartPTY, ServerTypeOK
<1>2. EntrySet(i, "open", "running", Window, Window)
  <2>1. PICK r : r = [state |-> "open", pty |-> "running", send |-> Window, recv |-> Window]
    OBVIOUS
  <2>2. server \in [Ids -> Entries] /\ server[i] \in Entries /\ i \in Ids
    BY <1>0, <1>i, <1>1 DEF ServerTypeOK, Tasks
  <2>3. Window \in 0..MaxWindow
    BY ONLY <1>0, <1>i, <1>1, <2>2, StreamInv DEF StreamInv, Numbers, Received, InputTask, Tasks
  <2>4. r \in Entries /\ r.state = "open" /\ r.pty = "running" /\ r.send = Window /\ r.recv = Window
    BY ONLY <2>1, <2>2, <2>3 DEF Entries
  <2>5. server' = [server EXCEPT ![i] = r]
    BY <2>1, <1>i DEF StartPTY, ServerTypeOK
  <2>6. QED
    BY ONLY <2>2, <2>4, <2>5, PutPlace DEF EntrySet
<1>3. ClientTypeOK' /\ Chunks' /\ Buffered'
  BY ONLY StreamInv, <1>1, ClientTypeOKKept, ChunksKept, BufferedKept DEF StreamInv, TypeOK
<1>4. ServerTypeOK'
  BY ONLY StreamInv, <1>0, <1>i, <1>1, <1>2, TypedStreamsAssumption DEF StreamInv, TypeOK, ServerTypeOK, Tasks,
       Numbers, EntrySet
<1>5. Allocated'
  BY ONLY StreamInv, <1>0, <1>i, <1>1, <1>2 DEF StreamInv, TypeOK, Allocated, Tasks, Addressed, EntrySet
<1>6. Answers'
  BY ONLY StreamInv, <1>0, <1>i, <1>1, <1>2 DEF StreamInv, TypeOK, Answers, Unanswered, Tasks, Addressed, EntrySet
<1>7. Unaccepted'
  BY ONLY StreamInv, <1>0, <1>i, <1>1, <1>2 DEF StreamInv, TypeOK, Unaccepted, InputTask, Tasks, Addressed, EntrySet
<1>8. SlotsExact'
  <2>1. Holders(server') = Holders(server)
    BY ONLY <1>0, <1>i, <1>1, <1>2, StreamInv DEF StreamInv, Holders, EntrySet, Numbers, Tasks
  <2>2. slots = Cardinality(Holders(server))
    BY DEF SlotsExact, Holders
  <2>3. slots' = Cardinality(Holders(server'))
    BY ONLY <2>1, <2>2, <1>1, HoldersCounted
  <2>4. QED
    BY ONLY <2>3 DEF SlotsExact, Holders
<1>9. NoOrphanProcess'
  BY ONLY StreamInv, <1>0, <1>i, <1>1, <1>2 DEF StreamInv, TypeOK, NoOrphanProcess, Tasks, Numbers, EntrySet
<1>10. Received'
  BY ONLY StreamInv, <1>0, <1>i, <1>1, <1>2 DEF StreamInv, TypeOK, Received, InputTask, Tasks, Numbers, EntrySet
<1>11. InputCredit'
  BY ONLY StreamInv, <1>0, <1>i, <1>1, <1>2 DEF StreamInv, TypeOK, InputCredit, InputTask, Tasks, Numbers, EntrySet
<1>12. OutputCreditConserved'
  <2>1. ~child[i].accepted /\ forwarder[i].step = "none" /\ i \in Ids
    BY ONLY StreamInv, <1>i, <1>1 DEF StreamInv, Tasks, Answers, Unanswered
  <2>2. InFlight(toClient, "data", i) = 0 /\ InFlight(toServer, "window", i) = 0
    <3>1. \A f \in Under(toClient) : f.id # i
      BY ONLY StreamInv, <1>i, <1>1 DEF StreamInv, Tasks, Answers, Unanswered
    <3>2. \A f \in Under(toServer) : ~(f.type = "window" /\ f.id = i)
      BY ONLY StreamInv, <2>1 DEF StreamInv, Unaccepted
    <3>3. QED
      BY ONLY StreamInv, <3>1, <3>2, InFlightNone DEF StreamInv, TypeOK, LinkTypeOK
  <2>3. child[i].queue = 0 /\ reader[i].step = "idle" /\ forwarder[i].chunk = 0
    BY ONLY StreamInv, <2>1 DEF StreamInv, Unaccepted, Chunks
  <2>4. QED
    BY ONLY <2>1, <2>2, <2>3, StreamInv, <1>0, <1>i, <1>1, <1>2 DEF StreamInv, OutputCreditConserved, Live, Numbers, EntrySet
<1>13. QED
  BY <1>3, <1>4, <1>5, <1>6, <1>7, <1>8, <1>9, <1>10, <1>11, <1>12 DEF Windows

\* Nor does a PTY that cannot be started.
LEMMA StartPTYFailsKeeps == ASSUME StreamInv, StartPTY, task'.step # "accepting" PROVE Windows'
<1> USE DEF StreamInv, TypeOK, clientVars, serverVars, linkVars
<1>0. Numbers /\ Addressed
  BY NumbersHold, FramesAddressed
<1>i. PICK i : i = task.id
  OBVIOUS
<1>1. /\ UNCHANGED <<toServer, toClient, lost, ended, cliDone, streams, nextStream, child, opener, reader, writer,
            closer, srvDone, forwarder, waiter>>
      /\ task.step = "starting" /\ slots' = slots - 1 /\ task' = [task EXCEPT !.step = "reporting"]
  BY <1>i DEF StartPTY, ServerTypeOK
<1>2. EntrySet(i, "closed", server[i].pty, server[i].send, server[i].recv)
  <2>1. PICK r : r = [server[i] EXCEPT !.state = "closed"]
    OBVIOUS
  <2>2. server \in [Ids -> Entries] /\ server[i] \in Entries /\ i \in Ids
    BY <1>0, <1>i, <1>1 DEF ServerTypeOK, Tasks
  <2>4. r \in Entries /\ r.state = "closed" /\ r.pty = server[i].pty /\ r.send = server[i].send /\ r.recv =
        server[i].recv
    BY ONLY <2>1, <2>2 DEF Entries
  <2>5. server' = [server EXCEPT ![i] = r]
    BY <2>1, <1>i DEF StartPTY, ServerTypeOK
  <2>6. QED
    BY ONLY <2>2, <2>4, <2>5, PutPlace DEF EntrySet
<1>3. ClientTypeOK' /\ Chunks' /\ Buffered'
  BY ONLY StreamInv, <1>1, ClientTypeOKKept, ChunksKept, BufferedKept DEF StreamInv, TypeOK
<1>4. ServerTypeOK'
  BY ONLY StreamInv, <1>0, <1>i, <1>1, <1>2, TypedStreamsAssumption, SlotsPositive DEF StreamInv, TypeOK,
       ServerTypeOK, Tasks, Numbers, EntrySet
<1>5. Allocated'
  BY ONLY StreamInv, <1>0, <1>i, <1>1, <1>2 DEF StreamInv, TypeOK, Allocated, Tasks, Addressed, EntrySet
<1>6. Answers'
  BY ONLY StreamInv, <1>0, <1>i, <1>1, <1>2 DEF StreamInv, TypeOK, Answers, Unanswered, Tasks, Addressed, EntrySet
<1>7. Unaccepted'
  BY ONLY StreamInv, <1>0, <1>i, <1>1, <1>2 DEF StreamInv, TypeOK, Unaccepted, InputTask, Tasks, Addressed, EntrySet
<1>8. SlotsExact'
  <2>1. Holders(server') = Holders(server) \ {i} /\ i \in Holders(server)
    BY ONLY <1>0, <1>i, <1>1, <1>2, StreamInv DEF StreamInv, Holders, EntrySet, Numbers, Tasks
  <2>2. slots = Cardinality(Holders(server))
    BY DEF SlotsExact, Holders
  <2>3. slots' = Cardinality(Holders(server'))
    BY ONLY <2>1, <2>2, <1>1, HoldersCounted
  <2>4. QED
    BY ONLY <2>3 DEF SlotsExact, Holders
<1>9. NoOrphanProcess'
  BY ONLY StreamInv, <1>0, <1>i, <1>1, <1>2 DEF StreamInv, TypeOK, NoOrphanProcess, Tasks, Numbers, EntrySet
<1>10. Received'
  BY ONLY StreamInv, <1>0, <1>i, <1>1, <1>2 DEF StreamInv, TypeOK, Received, InputTask, Tasks, Numbers, EntrySet
<1>11. InputCredit'
  BY ONLY StreamInv, <1>0, <1>i, <1>1, <1>2 DEF StreamInv, TypeOK, InputCredit, InputTask, Tasks, Numbers, EntrySet
<1>12. OutputCreditConserved'
  BY ONLY StreamInv, <1>0, <1>i, <1>1, <1>2 DEF StreamInv, TypeOK, OutputCreditConserved, Live, Tasks, Numbers,
       EntrySet
<1>13. QED
  BY <1>3, <1>4, <1>5, <1>6, <1>7, <1>8, <1>9, <1>10, <1>11, <1>12 DEF Windows

\* SendAccepted preserves the invariant.
LEMMA SendAcceptedKeeps == ASSUME StreamInv, SendAccepted PROVE Windows'
<1> USE DEF StreamInv, TypeOK, clientVars, serverVars, linkVars
<1>0. Numbers /\ Addressed
  BY NumbersHold, FramesAddressed
<1>i. PICK i : i = task.id
  OBVIOUS
<1>1. /\ UNCHANGED <<toServer, lost, ended, cliDone, streams, nextStream, child, opener, reader, writer, closer,
            srvDone, slots, server>>
      /\ task.step = "accepting"
      /\ task' = [step |-> "idle", id |-> 0, n |-> 0]
  BY <1>i DEF SendAccepted, Idle
<1>2. ForwarderSet(i, "reading", forwarder[i].hold, forwarder[i].chunk)
  <2>1. PICK r : r = [forwarder[i] EXCEPT !.step = "reading"]
    OBVIOUS
  <2>2. forwarder \in [Ids -> Forwarders] /\ forwarder[i] \in Forwarders /\ i \in Ids
    BY <1>0, <1>i, <1>1 DEF ServerTypeOK, Forwarders, Tasks
  <2>4. r \in Forwarders /\ r.step = "reading" /\ r.hold = forwarder[i].hold /\ r.chunk = forwarder[i].chunk
    BY ONLY <2>1, <2>2 DEF Forwarders
  <2>5. forwarder' = [forwarder EXCEPT ![i] = r]
    BY <2>1, <1>i DEF SendAccepted, Idle
  <2>6. QED
    BY ONLY <2>2, <2>4, <2>5, PutPlace DEF ForwarderSet
<1>3. Put(waiter, waiter', i, "waiting")
  BY <1>0, <1>i, <1>1, <1>2 DEF SendAccepted, Idle, Put, ServerTypeOK, Tasks
<1>4. SentToClient("accepted", i, 0)
  <2>1. LinkTypeOK /\ "accepted" \in FrameTypes /\ i \in Ids /\ 0 \in 0..Window
    BY <1>0, <1>i, <1>1, <1>2, <1>3 DEF FrameTypes, Numbers, Tasks
  <2>2. ServerSends(Frame("accepted", i, 0))
    BY <1>i DEF SendAccepted, Idle
  <2>3. QED
    BY ONLY <2>1, <2>2, ServerSending
<1>5. ClientTypeOK' /\ Allocated' /\ SlotsExact' /\ NoOrphanProcess' /\ Buffered'
  BY ONLY StreamInv, <1>1, ClientTypeOKKept, AllocatedKept, SlotsExactKept, NoOrphanProcessKept, BufferedKept DEF
       StreamInv, TypeOK
<1>6. ServerTypeOK'
  BY ONLY StreamInv, <1>0, <1>i, <1>1, <1>2, <1>3, <1>4, TypedStreamsAssumption DEF StreamInv, TypeOK, ServerTypeOK,
       Tasks, Unanswered, Answers, Numbers, ForwarderSet, Put, Forwarders, SentToClient
<1>7. Answers'
  BY ONLY StreamInv, <1>0, <1>i, <1>1, <1>2, <1>3, <1>4 DEF StreamInv, TypeOK, Answers, Unanswered, Tasks,
       Addressed, ForwarderSet, Put, SentToClient
<1>8. Unaccepted'
  BY ONLY StreamInv, <1>0, <1>i, <1>1, <1>2, <1>3, <1>4 DEF StreamInv, TypeOK, Unaccepted, InputTask, Tasks,
       Unanswered, Answers, Addressed, ForwarderSet, Put, SentToClient
<1>9. Chunks'
  BY ONLY StreamInv, <1>0, <1>i, <1>1, <1>2, <1>3, <1>4 DEF StreamInv, TypeOK, Chunks, Tasks, Unanswered, Answers,
       Numbers, ForwarderSet, Put, SentToClient
<1>10. Received'
  BY ONLY StreamInv, <1>0, <1>i, <1>1, <1>2, <1>3, <1>4 DEF StreamInv, TypeOK, Received, InputTask, Tasks,
       Unanswered, Answers, Numbers, ForwarderSet, Put, SentToClient
<1>11. InputCredit'
  BY ONLY StreamInv, <1>0, <1>i, <1>1, <1>2, <1>3, <1>4 DEF StreamInv, TypeOK, InputCredit, InputTask, Tasks,
       Unanswered, Answers, Numbers, ForwarderSet, Put, SentToClient
<1>12. OutputCreditConserved'
  BY ONLY StreamInv, <1>0, <1>i, <1>1, <1>2, <1>3, <1>4 DEF StreamInv, TypeOK, OutputCreditConserved, Live, Chunks,
       Tasks, Unanswered, Answers, Numbers, ForwarderSet, Put, SentToClient
<1>13. QED
  BY <1>5, <1>6, <1>7, <1>8, <1>9, <1>10, <1>11, <1>12 DEF Windows

\* SendUpdate preserves the invariant.
LEMMA SendUpdateKeeps == ASSUME StreamInv, SendUpdate PROVE Windows'
<1> USE DEF StreamInv, TypeOK, clientVars, serverVars, linkVars
<1>0. Numbers /\ Addressed
  BY NumbersHold, FramesAddressed
<1>i. PICK i : i = task.id
  OBVIOUS
<1>m. PICK m : m = task.n
  OBVIOUS
<1>1. /\ UNCHANGED <<toServer, lost, ended, cliDone, streams, nextStream, child, opener, reader, writer, closer,
            srvDone, slots, forwarder, waiter>>
      /\ task.step = "updating"
      /\ task' = [step |-> "idle", id |-> 0, n |-> 0]
  BY <1>i, <1>m DEF SendUpdate, Idle
<1>2. EntrySet(i, server[i].state, server[i].pty, server[i].send, server[i].recv + m)
  <2>1. PICK r : r = [server[i] EXCEPT !.recv = server[i].recv + m]
    OBVIOUS
  <2>2. server \in [Ids -> Entries] /\ server[i] \in Entries /\ i \in Ids
    BY <1>0, <1>i, <1>m, <1>1 DEF ServerTypeOK, Tasks
  <2>3. server[i].recv + m \in 0..MaxWindow
    BY ONLY <1>0, <1>i, <1>m, <1>1, <2>2, StreamInv DEF StreamInv, Numbers, Received, InputTask, Tasks
  <2>4. r \in Entries /\ r.state = server[i].state /\ r.pty = server[i].pty /\ r.send = server[i].send /\ r.recv =
        server[i].recv + m
    BY ONLY <2>1, <2>2, <2>3 DEF Entries
  <2>5. server' = [server EXCEPT ![i] = r]
    BY <2>1, <1>i, <1>m DEF SendUpdate, Idle
  <2>6. QED
    BY ONLY <2>2, <2>4, <2>5, PutPlace DEF EntrySet
<1>3. SentToClient("window", i, m)
  <2>1. LinkTypeOK /\ "window" \in FrameTypes /\ i \in Ids /\ m \in 0..Window
    BY <1>0, <1>i, <1>m, <1>1, <1>2 DEF FrameTypes, Numbers, Tasks
  <2>2. ServerSends(Frame("window", i, m))
    BY <1>i, <1>m DEF SendUpdate, Idle
  <2>3. QED
    BY ONLY <2>1, <2>2, ServerSending
<1>4. ClientTypeOK' /\ Chunks' /\ Buffered'
  BY ONLY StreamInv, <1>1, ClientTypeOKKept, ChunksKept, BufferedKept DEF StreamInv, TypeOK
<1>5. ServerTypeOK'
  BY ONLY StreamInv, <1>0, <1>i, <1>m, <1>1, <1>2, <1>3, TypedStreamsAssumption DEF StreamInv, TypeOK, ServerTypeOK,
       Tasks, Numbers, EntrySet, SentToClient
<1>6. Allocated'
  BY ONLY StreamInv, <1>0, <1>i, <1>m, <1>1, <1>2, <1>3 DEF StreamInv, TypeOK, Allocated, Tasks, Addressed,
       EntrySet, SentToClient
<1>7. Answers'
  BY ONLY StreamInv, <1>0, <1>i, <1>m, <1>1, <1>2, <1>3 DEF StreamInv, TypeOK, Answers, Unanswered, Tasks,
       Addressed, EntrySet, SentToClient
<1>8. Unaccepted'
  BY ONLY StreamInv, <1>0, <1>i, <1>m, <1>1, <1>2, <1>3 DEF StreamInv, TypeOK, Unaccepted, InputTask, Tasks,
       Addressed, EntrySet, SentToClient
<1>9. SlotsExact'
  <2>1. Holders(server') = Holders(server)
    BY ONLY <1>0, <1>i, <1>m, <1>1, <1>2, <1>3, StreamInv DEF StreamInv, Holders, EntrySet, Numbers, Tasks
  <2>2. slots = Cardinality(Holders(server))
    BY DEF SlotsExact, Holders
  <2>3. slots' = Cardinality(Holders(server'))
    BY ONLY <2>1, <2>2, <1>1, HoldersCounted
  <2>4. QED
    BY ONLY <2>3 DEF SlotsExact, Holders
<1>10. NoOrphanProcess'
  BY ONLY StreamInv, <1>0, <1>i, <1>m, <1>1, <1>2, <1>3 DEF StreamInv, TypeOK, NoOrphanProcess, Tasks, Numbers,
       EntrySet, SentToClient
<1>11. Received'
  BY ONLY StreamInv, <1>0, <1>i, <1>m, <1>1, <1>2, <1>3 DEF StreamInv, TypeOK, Received, InputTask, Tasks, Numbers,
       EntrySet, SentToClient
<1>12. InputCredit'
  BY ONLY StreamInv, <1>0, <1>i, <1>m, <1>1, <1>2, <1>3 DEF StreamInv, TypeOK, InputCredit, InputTask, Tasks,
       Numbers, EntrySet, SentToClient
<1>13. OutputCreditConserved'
  BY ONLY StreamInv, <1>0, <1>i, <1>m, <1>1, <1>2, <1>3 DEF StreamInv, TypeOK, OutputCreditConserved, Live, Tasks,
       Numbers, EntrySet, SentToClient
<1>14. QED
  BY <1>4, <1>5, <1>6, <1>7, <1>8, <1>9, <1>10, <1>11, <1>12, <1>13 DEF Windows

\* SendAck preserves the invariant.
LEMMA SendAckKeeps == ASSUME StreamInv, SendAck PROVE Windows'
<1> USE DEF StreamInv, TypeOK, clientVars, serverVars, linkVars
<1>0. Numbers /\ Addressed
  BY NumbersHold, FramesAddressed
<1>i. PICK i : i = task.id
  OBVIOUS
<1>1. /\ UNCHANGED <<toServer, lost, ended, cliDone, streams, nextStream, child, opener, reader, writer, closer,
            srvDone, slots, server, forwarder, waiter>>
      /\ task.step = "acking"
      /\ task' = [step |-> "idle", id |-> 0, n |-> 0]
  BY <1>i DEF SendAck, Idle
<1>2. SentToClient("close", i, 0)
  <2>1. LinkTypeOK /\ "close" \in FrameTypes /\ i \in Ids /\ 0 \in 0..Window
    BY <1>0, <1>i, <1>1 DEF FrameTypes, Numbers, Tasks
  <2>2. ServerSends(Frame("close", i, 0))
    BY <1>i DEF SendAck, Idle
  <2>3. QED
    BY ONLY <2>1, <2>2, ServerSending
<1>3. ClientTypeOK' /\ Allocated' /\ Chunks' /\ SlotsExact' /\ NoOrphanProcess' /\ Buffered'
  BY ONLY StreamInv, <1>1, ClientTypeOKKept, AllocatedKept, ChunksKept, SlotsExactKept, NoOrphanProcessKept,
       BufferedKept DEF StreamInv, TypeOK
<1>4. ServerTypeOK'
  BY ONLY StreamInv, <1>0, <1>i, <1>1, <1>2, TypedStreamsAssumption DEF StreamInv, TypeOK, ServerTypeOK, Tasks,
       Numbers, SentToClient
<1>5. Answers'
  BY ONLY StreamInv, <1>0, <1>i, <1>1, <1>2 DEF StreamInv, TypeOK, Answers, Unanswered, Tasks, Addressed,
       SentToClient
<1>6. Unaccepted'
  BY ONLY StreamInv, <1>0, <1>i, <1>1, <1>2 DEF StreamInv, TypeOK, Unaccepted, InputTask, Tasks, Addressed,
       SentToClient
<1>7. Received'
  BY ONLY StreamInv, <1>0, <1>i, <1>1, <1>2 DEF StreamInv, TypeOK, Received, InputTask, Tasks, Numbers, SentToClient
<1>8. InputCredit'
  BY ONLY StreamInv, <1>0, <1>i, <1>1, <1>2 DEF StreamInv, TypeOK, InputCredit, InputTask, Tasks, Numbers,
       SentToClient
<1>9. OutputCreditConserved'
  BY ONLY StreamInv, <1>0, <1>i, <1>1, <1>2 DEF StreamInv, TypeOK, OutputCreditConserved, Live, Tasks, Numbers,
       SentToClient
<1>10. QED
  BY <1>3, <1>4, <1>5, <1>6, <1>7, <1>8, <1>9 DEF Windows

\* SendError preserves the invariant.
LEMMA SendErrorKeeps == ASSUME StreamInv, SendError PROVE Windows'
<1> USE DEF StreamInv, TypeOK, clientVars, serverVars, linkVars
<1>0. Numbers /\ Addressed
  BY NumbersHold, FramesAddressed
<1>i. PICK i : i = task.id
  OBVIOUS
<1>1. /\ UNCHANGED <<toServer, lost, ended, cliDone, streams, nextStream, child, opener, reader, writer, closer,
            srvDone, slots, server, forwarder, waiter>>
      /\ task.step = "reporting"
      /\ task' = [step |-> "idle", id |-> 0, n |-> 0]
  BY <1>i DEF SendError, Idle
<1>2. SentToClient("error", i, 0)
  <2>1. LinkTypeOK /\ "error" \in FrameTypes /\ i \in Ids /\ 0 \in 0..Window
    BY <1>0, <1>i, <1>1 DEF FrameTypes, Numbers, Tasks
  <2>2. ServerSends(Frame("error", i, 0))
    BY <1>i DEF SendError, Idle
  <2>3. QED
    BY ONLY <2>1, <2>2, ServerSending
<1>3. ClientTypeOK' /\ Allocated' /\ Chunks' /\ SlotsExact' /\ NoOrphanProcess' /\ Buffered'
  BY ONLY StreamInv, <1>1, ClientTypeOKKept, AllocatedKept, ChunksKept, SlotsExactKept, NoOrphanProcessKept,
       BufferedKept DEF StreamInv, TypeOK
<1>4. ServerTypeOK'
  BY ONLY StreamInv, <1>0, <1>i, <1>1, <1>2, TypedStreamsAssumption DEF StreamInv, TypeOK, ServerTypeOK, Tasks,
       Numbers, SentToClient
<1>5. Answers'
  BY ONLY StreamInv, <1>0, <1>i, <1>1, <1>2 DEF StreamInv, TypeOK, Answers, Unanswered, Tasks, Addressed,
       SentToClient
<1>6. Unaccepted'
  BY ONLY StreamInv, <1>0, <1>i, <1>1, <1>2 DEF StreamInv, TypeOK, Unaccepted, InputTask, Tasks, Addressed,
       SentToClient
<1>7. Received'
  BY ONLY StreamInv, <1>0, <1>i, <1>1, <1>2 DEF StreamInv, TypeOK, Received, InputTask, Tasks, Numbers, SentToClient
<1>8. InputCredit'
  BY ONLY StreamInv, <1>0, <1>i, <1>1, <1>2 DEF StreamInv, TypeOK, InputCredit, InputTask, Tasks, Numbers,
       SentToClient
<1>9. OutputCreditConserved'
  BY ONLY StreamInv, <1>0, <1>i, <1>1, <1>2 DEF StreamInv, TypeOK, OutputCreditConserved, Live, Tasks, Numbers,
       SentToClient
<1>10. QED
  BY <1>3, <1>4, <1>5, <1>6, <1>7, <1>8, <1>9 DEF Windows

\* PtyTakesInput preserves the invariant.
LEMMA PtyTakesInputKeeps == ASSUME StreamInv, PtyTakesInput PROVE Windows'
<1> USE DEF StreamInv, TypeOK, clientVars, serverVars, linkVars
<1>0. Numbers /\ Addressed
  BY NumbersHold, FramesAddressed
<1>1. /\ UNCHANGED <<toServer, toClient, lost, ended, cliDone, streams, nextStream, child, opener, reader, writer,
            closer, srvDone, slots, server, forwarder, waiter>>
      /\ task.step = "writing" /\ task' = [task EXCEPT !.step = "updating"]
  BY DEF PtyTakesInput
<1>2. ClientTypeOK' /\ Allocated' /\ Chunks' /\ SlotsExact' /\ NoOrphanProcess' /\ Buffered' /\
          OutputCreditConserved'
  BY ONLY StreamInv, <1>1, ClientTypeOKKept, AllocatedKept, ChunksKept, SlotsExactKept, NoOrphanProcessKept,
       BufferedKept, OutputCreditConservedKept DEF StreamInv, TypeOK
<1>3. ServerTypeOK'
  BY ONLY StreamInv, <1>0, <1>1, TypedStreamsAssumption DEF StreamInv, TypeOK, ServerTypeOK, Tasks, Numbers
<1>4. Answers'
  BY ONLY StreamInv, <1>0, <1>1 DEF StreamInv, TypeOK, Answers, Unanswered, Tasks, ServerTypeOK, Addressed
<1>5. Unaccepted'
  BY ONLY StreamInv, <1>0, <1>1 DEF StreamInv, TypeOK, Unaccepted, InputTask, Tasks, ServerTypeOK, Addressed
<1>6. Received'
  BY ONLY StreamInv, <1>0, <1>1 DEF StreamInv, TypeOK, Received, InputTask, Tasks, ServerTypeOK, Numbers
<1>7. InputCredit'
  BY ONLY StreamInv, <1>0, <1>1 DEF StreamInv, TypeOK, InputCredit, InputTask, Tasks, ServerTypeOK, Numbers
<1>8. QED
  BY <1>2, <1>3, <1>4, <1>5, <1>6, <1>7 DEF Windows

\* PtyRefusesInput preserves the invariant.
LEMMA PtyRefusesInputKeeps == ASSUME StreamInv, PtyRefusesInput, server[task.id].state = "open" PROVE Windows'
<1> USE DEF StreamInv, TypeOK, clientVars, serverVars, linkVars
<1>0. Numbers /\ Addressed
  BY NumbersHold, FramesAddressed
<1>i. PICK i : i = task.id
  OBVIOUS
<1>1. /\ UNCHANGED <<toServer, toClient, lost, ended, cliDone, streams, nextStream, child, opener, reader, writer,
            closer, srvDone, forwarder, waiter>>
      /\ task.step = "writing" /\ slots' = slots - 1 /\ task' = [task EXCEPT !.step = "reporting"]
      /\ server[task.id].state = "open"
  BY <1>i DEF PtyRefusesInput, CloseEntry
<1>2. EntrySet(i, "closed", "closed", server[i].send, server[i].recv)
  <2>1. PICK r : r = [server[i] EXCEPT !.state = "closed", !.pty = "closed"]
    OBVIOUS
  <2>2. server \in [Ids -> Entries] /\ server[i] \in Entries /\ i \in Ids
    BY <1>0, <1>i, <1>1 DEF ServerTypeOK, Tasks
  <2>4. r \in Entries /\ r.state = "closed" /\ r.pty = "closed" /\ r.send = server[i].send /\ r.recv =
        server[i].recv
    BY ONLY <2>1, <2>2 DEF Entries
  <2>5. server' = [server EXCEPT ![i] = r]
    BY <2>1, <1>i DEF PtyRefusesInput, CloseEntry
  <2>6. QED
    BY ONLY <2>2, <2>4, <2>5, PutPlace DEF EntrySet
<1>3. ClientTypeOK' /\ Chunks' /\ Buffered'
  BY ONLY StreamInv, <1>1, ClientTypeOKKept, ChunksKept, BufferedKept DEF StreamInv, TypeOK
<1>4. ServerTypeOK'
  BY ONLY StreamInv, <1>0, <1>i, <1>1, <1>2, TypedStreamsAssumption, SlotsPositive DEF StreamInv, TypeOK,
       ServerTypeOK, Tasks, Numbers, EntrySet
<1>5. Allocated'
  BY ONLY StreamInv, <1>0, <1>i, <1>1, <1>2 DEF StreamInv, TypeOK, Allocated, Tasks, Addressed, EntrySet
<1>6. Answers'
  BY ONLY StreamInv, <1>0, <1>i, <1>1, <1>2 DEF StreamInv, TypeOK, Answers, Unanswered, Tasks, Addressed, EntrySet
<1>7. Unaccepted'
  BY ONLY StreamInv, <1>0, <1>i, <1>1, <1>2 DEF StreamInv, TypeOK, Unaccepted, InputTask, Tasks, Addressed, EntrySet
<1>8. SlotsExact'
  <2>1. Holders(server') = Holders(server) \ {i} /\ i \in Holders(server)
    BY ONLY <1>0, <1>i, <1>1, <1>2, StreamInv DEF StreamInv, Holders, EntrySet, Numbers, Tasks
  <2>2. slots = Cardinality(Holders(server))
    BY DEF SlotsExact, Holders
  <2>3. slots' = Cardinality(Holders(server'))
    BY ONLY <2>1, <2>2, <1>1, HoldersCounted
  <2>4. QED
    BY ONLY <2>3 DEF SlotsExact, Holders
<1>9. NoOrphanProcess'
  BY ONLY StreamInv, <1>0, <1>i, <1>1, <1>2 DEF StreamInv, TypeOK, NoOrphanProcess, Tasks, Numbers, EntrySet
<1>10. Received'
  BY ONLY StreamInv, <1>0, <1>i, <1>1, <1>2 DEF StreamInv, TypeOK, Received, InputTask, Tasks, Numbers, EntrySet
<1>11. InputCredit'
  BY ONLY StreamInv, <1>0, <1>i, <1>1, <1>2 DEF StreamInv, TypeOK, InputCredit, InputTask, Tasks, Numbers, EntrySet
<1>12. OutputCreditConserved'
  BY ONLY StreamInv, <1>0, <1>i, <1>1, <1>2 DEF StreamInv, TypeOK, OutputCreditConserved, Live, Tasks, Numbers,
       EntrySet
<1>13. QED
  BY <1>3, <1>4, <1>5, <1>6, <1>7, <1>8, <1>9, <1>10, <1>11, <1>12 DEF Windows

\* Nor does it if the stream is closed already.
LEMMA PtyRefusesLateKeeps == ASSUME StreamInv, PtyRefusesInput, server[task.id].state # "open" PROVE Windows'
<1> USE DEF StreamInv, TypeOK, clientVars, serverVars, linkVars
<1>0. Numbers /\ Addressed
  BY NumbersHold, FramesAddressed
<1>1. /\ UNCHANGED <<toServer, toClient, lost, ended, cliDone, streams, nextStream, child, opener, reader, writer,
            closer, srvDone, slots, server, forwarder, waiter>>
      /\ task.step = "writing" /\ task' = [task EXCEPT !.step = "reporting"] /\ server[task.id].state # "open"
      /\ server[task.id].state # "open"
  BY DEF PtyRefusesInput
<1>2. ClientTypeOK' /\ Allocated' /\ Chunks' /\ SlotsExact' /\ NoOrphanProcess' /\ Buffered' /\
          OutputCreditConserved'
  BY ONLY StreamInv, <1>1, ClientTypeOKKept, AllocatedKept, ChunksKept, SlotsExactKept, NoOrphanProcessKept,
       BufferedKept, OutputCreditConservedKept DEF StreamInv, TypeOK
<1>3. ServerTypeOK'
  BY ONLY StreamInv, <1>0, <1>1, TypedStreamsAssumption DEF StreamInv, TypeOK, ServerTypeOK, Tasks, Numbers
<1>4. Answers'
  BY ONLY StreamInv, <1>0, <1>1 DEF StreamInv, TypeOK, Answers, Unanswered, Tasks, ServerTypeOK, Addressed
<1>5. Unaccepted'
  BY ONLY StreamInv, <1>0, <1>1 DEF StreamInv, TypeOK, Unaccepted, InputTask, Tasks, ServerTypeOK, Addressed
<1>6. Received'
  BY ONLY StreamInv, <1>0, <1>1 DEF StreamInv, TypeOK, Received, InputTask, Tasks, ServerTypeOK, Numbers
<1>7. InputCredit'
  BY ONLY StreamInv, <1>0, <1>1 DEF StreamInv, TypeOK, InputCredit, InputTask, Tasks, ServerTypeOK, Numbers
<1>8. QED
  BY <1>2, <1>3, <1>4, <1>5, <1>6, <1>7 DEF Windows

\* TakeOutputCredit preserves the invariant.
LEMMA TakeOutputCreditKeeps == ASSUME StreamInv, NEW i \in Ids, TakeOutputCredit(i) PROVE Windows'
<1> USE DEF StreamInv, TypeOK, clientVars, serverVars, linkVars
<1>0. Numbers /\ Addressed
  BY NumbersHold, FramesAddressed
<1>m. PICK m : m = Lower(Lower(forwarder[i].hold, MaxChunk), server[i].send)
  OBVIOUS
<1>b. m \in 0..Window /\ m <= forwarder[i].hold /\ m <= server[i].send
  BY <1>0, <1>m DEF Numbers, Lower
<1>1. /\ UNCHANGED <<toServer, toClient, lost, ended, cliDone, streams, nextStream, child, opener, reader, writer,
            closer, srvDone, slots, task, waiter>>
      /\ forwarder[i].step = "holding"
  BY <1>m, <1>b DEF TakeOutputCredit
<1>2. EntrySet(i, server[i].state, server[i].pty, server[i].send - m, server[i].recv)
  <2>1. PICK r : r = [server[i] EXCEPT !.send = server[i].send - m]
    OBVIOUS
  <2>2. server \in [Ids -> Entries] /\ server[i] \in Entries /\ i \in Ids
    BY <1>0, <1>m, <1>b, <1>1 DEF ServerTypeOK
  <2>3. server[i].send - m \in 0..MaxWindow
    BY ONLY <1>0, <1>m, <1>b, <1>1, <2>2, StreamInv, i \in Ids DEF StreamInv, Numbers, Received, InputTask
  <2>4. r \in Entries /\ r.state = server[i].state /\ r.pty = server[i].pty /\ r.send = server[i].send - m /\ r.recv
        = server[i].recv
    BY ONLY <2>1, <2>2, <2>3 DEF Entries
  <2>5. server' = [server EXCEPT ![i] = r]
    BY <2>1, <1>m, <1>b DEF TakeOutputCredit
  <2>6. QED
    BY ONLY <2>2, <2>4, <2>5, PutPlace DEF EntrySet
<1>3. ForwarderSet(i, "sending", forwarder[i].hold - m, m)
  <2>1. PICK r : r = [step |-> "sending", hold |-> forwarder[i].hold - m, chunk |-> m]
    OBVIOUS
  <2>2. forwarder \in [Ids -> Forwarders] /\ forwarder[i] \in Forwarders /\ i \in Ids
    BY <1>0, <1>m, <1>b, <1>1, <1>2 DEF ServerTypeOK, Forwarders
  <2>3. m \in 0..Window /\ forwarder[i].hold - m \in 0..Window
    BY ONLY <1>0, <1>m, <1>b, <1>1, <1>2, <2>2, StreamInv, i \in Ids DEF StreamInv, Numbers
  <2>4. r \in Forwarders /\ r.step = "sending" /\ r.hold = forwarder[i].hold - m /\ r.chunk = m
    BY ONLY <2>1, <2>2, <2>3 DEF Forwarders
  <2>5. forwarder' = [forwarder EXCEPT ![i] = r]
    BY <2>1, <1>m, <1>b DEF TakeOutputCredit
  <2>6. QED
    BY ONLY <2>2, <2>4, <2>5, PutPlace DEF ForwarderSet
<1>4. ClientTypeOK' /\ Unaccepted' /\ Buffered' /\ InputCredit'
  BY ONLY StreamInv, <1>1, ClientTypeOKKept, UnacceptedKept, BufferedKept, InputCreditKept DEF StreamInv, TypeOK
<1>5. ServerTypeOK'
  BY ONLY StreamInv, <1>0, <1>m, <1>b, <1>1, <1>2, <1>3, i \in Ids, TypedStreamsAssumption DEF StreamInv, TypeOK,
       ServerTypeOK, Chunks, Numbers, EntrySet, ForwarderSet, Forwarders
<1>6. Allocated'
  BY ONLY StreamInv, <1>0, <1>m, <1>b, <1>1, <1>2, <1>3, i \in Ids DEF StreamInv, TypeOK, Allocated, Chunks,
       Addressed, EntrySet, ForwarderSet
<1>7. Answers'
  BY ONLY StreamInv, <1>0, <1>m, <1>b, <1>1, <1>2, <1>3, i \in Ids DEF StreamInv, TypeOK, Answers, Unanswered,
       Chunks, Addressed, EntrySet, ForwarderSet
<1>8. Chunks'
  BY ONLY StreamInv, <1>0, <1>m, <1>b, <1>1, <1>2, <1>3, i \in Ids DEF StreamInv, TypeOK, Chunks, Numbers, EntrySet,
       ForwarderSet
<1>9. SlotsExact'
  <2>1. Holders(server') = Holders(server)
    BY ONLY <1>0, <1>m, <1>b, <1>1, <1>2, <1>3, StreamInv, i \in Ids DEF StreamInv, Holders, EntrySet, ForwarderSet,
       Numbers
  <2>2. slots = Cardinality(Holders(server))
    BY DEF SlotsExact, Holders
  <2>3. slots' = Cardinality(Holders(server'))
    BY ONLY <2>1, <2>2, <1>1, HoldersCounted
  <2>4. QED
    BY ONLY <2>3 DEF SlotsExact, Holders
<1>10. NoOrphanProcess'
  BY ONLY StreamInv, <1>0, <1>m, <1>b, <1>1, <1>2, <1>3, i \in Ids DEF StreamInv, TypeOK, NoOrphanProcess, Chunks,
       Numbers, EntrySet, ForwarderSet
<1>11. Received'
  BY ONLY StreamInv, <1>0, <1>m, <1>b, <1>1, <1>2, <1>3, i \in Ids DEF StreamInv, TypeOK, Received, InputTask,
       Chunks, Numbers, EntrySet, ForwarderSet
<1>12. OutputCreditConserved'
  BY ONLY StreamInv, <1>0, <1>m, <1>b, <1>1, <1>2, <1>3, i \in Ids DEF StreamInv, TypeOK, OutputCreditConserved,
       Live, Chunks, Numbers, EntrySet, ForwarderSet
<1>13. QED
  BY <1>4, <1>5, <1>6, <1>7, <1>8, <1>9, <1>10, <1>11, <1>12 DEF Windows

\* SendOutput preserves the invariant.
LEMMA SendOutputKeeps == ASSUME StreamInv, NEW i \in Ids, SendOutput(i) PROVE Windows'
<1> USE DEF StreamInv, TypeOK, clientVars, serverVars, linkVars
<1>0. Numbers /\ Addressed
  BY NumbersHold, FramesAddressed
<1>m. PICK m : m = forwarder[i].chunk
  OBVIOUS
<1>v. PICK v : v = IF forwarder[i].hold > 0 THEN "holding" ELSE "reading"
  OBVIOUS
<1>1. /\ UNCHANGED <<toServer, lost, ended, cliDone, streams, nextStream, child, opener, reader, writer, closer,
            srvDone, slots, server, task, waiter>>
      /\ forwarder[i].step = "sending" /\ ~srvDone
  BY <1>m, <1>v DEF SendOutput
<1>2. ForwarderSet(i, v, forwarder[i].hold, 0)
  <2>1. PICK r : r = [step |-> v, hold |-> forwarder[i].hold, chunk |-> 0]
    OBVIOUS
  <2>2. forwarder \in [Ids -> Forwarders] /\ forwarder[i] \in Forwarders /\ i \in Ids
    BY <1>0, <1>m, <1>v, <1>1 DEF ServerTypeOK, Forwarders
  <2>3. v \in {"holding", "reading"} /\ forwarder[i].hold \in 0..Window /\ 0 \in 0..Window
    BY ONLY <1>0, <1>m, <1>v, <1>1, <2>2, StreamInv, i \in Ids DEF StreamInv, Numbers
  <2>4. r \in Forwarders /\ r.step = v /\ r.hold = forwarder[i].hold /\ r.chunk = 0
    BY ONLY <2>1, <2>2, <2>3 DEF Forwarders
  <2>5. forwarder' = [forwarder EXCEPT ![i] = r]
    BY <2>1, <1>m, <1>v DEF SendOutput
  <2>6. QED
    BY ONLY <2>2, <2>4, <2>5, PutPlace DEF ForwarderSet
<1>3. SentToClient("data", i, m)
  <2>1. LinkTypeOK /\ "data" \in FrameTypes /\ i \in Ids /\ m \in 0..Window
    BY <1>0, <1>m, <1>v, <1>1, <1>2 DEF FrameTypes, Numbers
  <2>2. ServerSends(Frame("data", i, m))
    BY <1>m, <1>v DEF SendOutput
  <2>3. QED
    BY ONLY <2>1, <2>2, ServerSending
<1>4. ClientTypeOK' /\ Allocated' /\ SlotsExact' /\ NoOrphanProcess' /\ Buffered' /\ Received'
  BY ONLY StreamInv, <1>1, ClientTypeOKKept, AllocatedKept, SlotsExactKept, NoOrphanProcessKept, BufferedKept,
       ReceivedKept DEF StreamInv, TypeOK
<1>5. ServerTypeOK'
  BY ONLY StreamInv, <1>0, <1>m, <1>v, <1>1, <1>2, <1>3, i \in Ids, TypedStreamsAssumption DEF StreamInv, TypeOK,
       ServerTypeOK, Numbers, ForwarderSet, Forwarders, SentToClient
<1>6. Answers'
  BY ONLY StreamInv, <1>0, <1>m, <1>v, <1>1, <1>2, <1>3, i \in Ids DEF StreamInv, TypeOK, Answers, Unanswered,
       Addressed, ForwarderSet, SentToClient
<1>7. Unaccepted'
  BY ONLY StreamInv, <1>0, <1>m, <1>v, <1>1, <1>2, <1>3, i \in Ids DEF StreamInv, TypeOK, Unaccepted, InputTask,
       Addressed, ForwarderSet, SentToClient
<1>8. Chunks'
  BY ONLY StreamInv, <1>0, <1>m, <1>v, <1>1, <1>2, <1>3, i \in Ids DEF StreamInv, TypeOK, Chunks, Numbers,
       ForwarderSet, SentToClient
<1>9. InputCredit'
  BY ONLY StreamInv, <1>0, <1>m, <1>v, <1>1, <1>2, <1>3, i \in Ids DEF StreamInv, TypeOK, InputCredit, InputTask,
       Numbers, ForwarderSet, SentToClient
<1>10. OutputCreditConserved'
  BY ONLY StreamInv, <1>0, <1>m, <1>v, <1>1, <1>2, <1>3, i \in Ids DEF StreamInv, TypeOK, OutputCreditConserved,
       Live, Chunks, Numbers, ForwarderSet, SentToClient
<1>11. QED
  BY <1>4, <1>5, <1>6, <1>7, <1>8, <1>9, <1>10 DEF Windows

\* StopForwarding preserves the invariant.
LEMMA StopForwardingKeeps == ASSUME StreamInv, NEW i \in Ids, StopForwarding(i) PROVE Windows'
<1> USE DEF StreamInv, TypeOK, clientVars, serverVars, linkVars
<1>0. Numbers /\ Addressed
  BY NumbersHold, FramesAddressed
<1>1. /\ UNCHANGED <<toServer, toClient, lost, ended, cliDone, streams, nextStream, child, opener, reader, writer,
            closer, srvDone, slots, server, task, waiter>>
      /\ forwarder[i].step # "none" /\ (forwarder[i].step = "sending" => srvDone \/ cliDone \/ lost)
  BY DEF StopForwarding
<1>2. ForwarderSet(i, "stopped", 0, 0)
  <2>1. PICK r : r = [step |-> "stopped", hold |-> 0, chunk |-> 0]
    OBVIOUS
  <2>2. forwarder \in [Ids -> Forwarders] /\ forwarder[i] \in Forwarders /\ i \in Ids
    BY <1>0, <1>1 DEF ServerTypeOK, Forwarders
  <2>3. 0 \in 0..Window
    BY ONLY <1>0, <1>1, <2>2, StreamInv, i \in Ids DEF StreamInv, Numbers
  <2>4. r \in Forwarders /\ r.step = "stopped" /\ r.hold = 0 /\ r.chunk = 0
    BY ONLY <2>1, <2>2, <2>3 DEF Forwarders
  <2>5. forwarder' = [forwarder EXCEPT ![i] = r]
    BY <2>1 DEF StopForwarding
  <2>6. QED
    BY ONLY <2>2, <2>4, <2>5, PutPlace DEF ForwarderSet
<1>3. ClientTypeOK' /\ Allocated' /\ Unaccepted' /\ SlotsExact' /\ NoOrphanProcess' /\ Buffered' /\ Received' /\
          InputCredit'
  BY ONLY StreamInv, <1>1, ClientTypeOKKept, AllocatedKept, UnacceptedKept, SlotsExactKept, NoOrphanProcessKept,
       BufferedKept, ReceivedKept, InputCreditKept DEF StreamInv, TypeOK
<1>4. ServerTypeOK'
  BY ONLY StreamInv, <1>0, <1>1, <1>2, i \in Ids, TypedStreamsAssumption DEF StreamInv, TypeOK, ServerTypeOK,
       Chunks, Numbers, ForwarderSet, Forwarders
<1>5. Answers'
  BY ONLY StreamInv, <1>0, <1>1, <1>2, i \in Ids DEF StreamInv, TypeOK, Answers, Unanswered, Chunks, Addressed,
       ForwarderSet
<1>6. Chunks'
  BY ONLY StreamInv, <1>0, <1>1, <1>2, i \in Ids DEF StreamInv, TypeOK, Chunks, Numbers, ForwarderSet
<1>7. OutputCreditConserved'
  BY ONLY StreamInv, <1>0, <1>1, <1>2, i \in Ids DEF StreamInv, TypeOK, OutputCreditConserved, Live, Chunks,
       Numbers, ForwarderSet
<1>8. QED
  BY <1>3, <1>4, <1>5, <1>6, <1>7 DEF Windows

\* WaitReturns preserves the invariant.
LEMMA WaitReturnsKeeps == ASSUME StreamInv, NEW i \in Ids, WaitReturns(i), server[i].state = "open" PROVE Windows'
<1> USE DEF StreamInv, TypeOK, clientVars, serverVars, linkVars
<1>0. Numbers /\ Addressed
  BY NumbersHold, FramesAddressed
<1>1. /\ UNCHANGED <<toServer, toClient, lost, ended, cliDone, streams, nextStream, child, opener, reader, writer,
            closer, srvDone, task, forwarder>>
      /\ waiter[i] = "waiting" /\ slots' = slots - 1
      /\ server[i].state = "open"
  BY DEF WaitReturns, CloseEntry
<1>2. EntrySet(i, "closed", "closed", server[i].send, server[i].recv)
  <2>1. PICK r : r = [server[i] EXCEPT !.state = "closed", !.pty = "closed"]
    OBVIOUS
  <2>2. server \in [Ids -> Entries] /\ server[i] \in Entries /\ i \in Ids
    BY <1>0, <1>1 DEF ServerTypeOK
  <2>4. r \in Entries /\ r.state = "closed" /\ r.pty = "closed" /\ r.send = server[i].send /\ r.recv =
        server[i].recv
    BY ONLY <2>1, <2>2 DEF Entries
  <2>5. server' = [server EXCEPT ![i] = r]
    BY <2>1 DEF WaitReturns, CloseEntry
  <2>6. QED
    BY ONLY <2>2, <2>4, <2>5, PutPlace DEF EntrySet
<1>3. Put(waiter, waiter', i, "closing")
  BY <1>0, <1>1, <1>2 DEF WaitReturns, CloseEntry, Put, ServerTypeOK
<1>4. ClientTypeOK' /\ Unaccepted' /\ Chunks' /\ Buffered' /\ InputCredit'
  BY ONLY StreamInv, <1>1, ClientTypeOKKept, UnacceptedKept, ChunksKept, BufferedKept, InputCreditKept DEF
       StreamInv, TypeOK
<1>5. ServerTypeOK'
  BY ONLY StreamInv, <1>0, <1>1, <1>2, <1>3, i \in Ids, TypedStreamsAssumption, SlotsPositive DEF StreamInv, TypeOK,
       ServerTypeOK, Numbers, EntrySet, Put
<1>6. Allocated'
  BY ONLY StreamInv, <1>0, <1>1, <1>2, <1>3, i \in Ids DEF StreamInv, TypeOK, Allocated, Addressed, EntrySet, Put
<1>7. Answers'
  BY ONLY StreamInv, <1>0, <1>1, <1>2, <1>3, i \in Ids DEF StreamInv, TypeOK, Answers, Unanswered, Addressed,
       EntrySet, Put
<1>8. SlotsExact'
  <2>1. Holders(server') = Holders(server) \ {i} /\ i \in Holders(server)
    BY ONLY <1>0, <1>1, <1>2, <1>3, StreamInv, i \in Ids DEF StreamInv, Holders, EntrySet, Numbers
  <2>2. slots = Cardinality(Holders(server))
    BY DEF SlotsExact, Holders
  <2>3. slots' = Cardinality(Holders(server'))
    BY ONLY <2>1, <2>2, <1>1, HoldersCounted
  <2>4. QED
    BY ONLY <2>3 DEF SlotsExact, Holders
<1>9. NoOrphanProcess'
  BY ONLY StreamInv, <1>0, <1>1, <1>2, <1>3, i \in Ids DEF StreamInv, TypeOK, NoOrphanProcess, Numbers, EntrySet,
       Put
<1>10. Received'
  BY ONLY StreamInv, <1>0, <1>1, <1>2, <1>3, i \in Ids DEF StreamInv, TypeOK, Received, InputTask, Numbers,
       EntrySet, Put
<1>11. OutputCreditConserved'
  BY ONLY StreamInv, <1>0, <1>1, <1>2, <1>3, i \in Ids DEF StreamInv, TypeOK, OutputCreditConserved, Live, Numbers,
       EntrySet, Put
<1>12. QED
  BY <1>4, <1>5, <1>6, <1>7, <1>8, <1>9, <1>10, <1>11 DEF Windows

\* Nor does it if another goroutine closed the stream.
LEMMA WaitReturnsLateKeeps == ASSUME StreamInv, NEW i \in Ids, WaitReturns(i), server[i].state # "open" PROVE
        Windows'
<1> USE DEF StreamInv, TypeOK, clientVars, serverVars, linkVars
<1>0. Numbers /\ Addressed
  BY NumbersHold, FramesAddressed
<1>1. /\ UNCHANGED <<toServer, toClient, lost, ended, cliDone, streams, nextStream, child, opener, reader, writer,
            closer, srvDone, slots, server, task, forwarder>>
      /\ waiter[i] = "waiting"
      /\ server[i].state # "open"
  BY DEF WaitReturns
<1>2. Put(waiter, waiter', i, "done")
  BY <1>0, <1>1 DEF WaitReturns, Put, ServerTypeOK
<1>3. ClientTypeOK' /\ Allocated' /\ Unaccepted' /\ Chunks' /\ SlotsExact' /\ NoOrphanProcess' /\ Buffered' /\
          Received' /\ InputCredit' /\ OutputCreditConserved'
  BY ONLY StreamInv, <1>1, ClientTypeOKKept, AllocatedKept, UnacceptedKept, ChunksKept, SlotsExactKept,
       NoOrphanProcessKept, BufferedKept, ReceivedKept, InputCreditKept, OutputCreditConservedKept DEF StreamInv,
       TypeOK
<1>4. ServerTypeOK'
  BY ONLY StreamInv, <1>0, <1>1, <1>2, i \in Ids, TypedStreamsAssumption DEF StreamInv, TypeOK, ServerTypeOK,
       Numbers, Put
<1>5. Answers'
  BY ONLY StreamInv, <1>0, <1>1, <1>2, i \in Ids DEF StreamInv, TypeOK, Answers, Unanswered, Addressed, Put
<1>6. QED
  BY <1>3, <1>4, <1>5 DEF Windows

\* SendClose preserves the invariant.
LEMMA SendCloseKeeps == ASSUME StreamInv, NEW i \in Ids, SendClose(i), ~srvDone PROVE Windows'
<1> USE DEF StreamInv, TypeOK, clientVars, serverVars, linkVars
<1>0. Numbers /\ Addressed
  BY NumbersHold, FramesAddressed
<1>1. /\ UNCHANGED <<toServer, lost, ended, cliDone, streams, nextStream, child, opener, reader, writer, closer,
            srvDone, slots, server, task, forwarder>>
      /\ waiter[i] = "closing"
      /\ ~srvDone
  BY DEF SendClose
<1>2. Put(waiter, waiter', i, "done")
  BY <1>0, <1>1 DEF SendClose, Put, ServerTypeOK
<1>3. SentToClient("close", i, 0)
  <2>1. LinkTypeOK /\ "close" \in FrameTypes /\ i \in Ids /\ 0 \in 0..Window
    BY <1>0, <1>1, <1>2 DEF FrameTypes, Numbers
  <2>2. ServerSends(Frame("close", i, 0))
    BY DEF SendClose
  <2>3. QED
    BY ONLY <2>1, <2>2, ServerSending
<1>4. ClientTypeOK' /\ Allocated' /\ Chunks' /\ SlotsExact' /\ NoOrphanProcess' /\ Buffered' /\ Received'
  BY ONLY StreamInv, <1>1, ClientTypeOKKept, AllocatedKept, ChunksKept, SlotsExactKept, NoOrphanProcessKept,
       BufferedKept, ReceivedKept DEF StreamInv, TypeOK
<1>5. ServerTypeOK'
  BY ONLY StreamInv, <1>0, <1>1, <1>2, <1>3, i \in Ids, TypedStreamsAssumption DEF StreamInv, TypeOK, ServerTypeOK,
       Numbers, Put, SentToClient
<1>6. Answers'
  BY ONLY StreamInv, <1>0, <1>1, <1>2, <1>3, i \in Ids DEF StreamInv, TypeOK, Answers, Unanswered, Addressed, Put,
       SentToClient
<1>7. Unaccepted'
  BY ONLY StreamInv, <1>0, <1>1, <1>2, <1>3, i \in Ids DEF StreamInv, TypeOK, Unaccepted, InputTask, Addressed, Put,
       SentToClient
<1>8. InputCredit'
  BY ONLY StreamInv, <1>0, <1>1, <1>2, <1>3, i \in Ids DEF StreamInv, TypeOK, InputCredit, InputTask, Numbers, Put,
       SentToClient
<1>9. OutputCreditConserved'
  BY ONLY StreamInv, <1>0, <1>1, <1>2, <1>3, i \in Ids DEF StreamInv, TypeOK, OutputCreditConserved, Live, Numbers,
       Put, SentToClient
<1>10. QED
  BY <1>4, <1>5, <1>6, <1>7, <1>8, <1>9 DEF Windows

\* Nor does it after the end of the session.
LEMMA SendCloseLateKeeps == ASSUME StreamInv, NEW i \in Ids, SendClose(i), srvDone PROVE Windows'
<1> USE DEF StreamInv, TypeOK, clientVars, serverVars, linkVars
<1>0. Numbers /\ Addressed
  BY NumbersHold, FramesAddressed
<1>1. /\ UNCHANGED <<toServer, toClient, lost, ended, cliDone, streams, nextStream, child, opener, reader, writer,
            closer, srvDone, slots, server, task, forwarder>>
      /\ waiter[i] = "closing"
      /\ srvDone
  BY DEF SendClose
<1>2. Put(waiter, waiter', i, "done")
  BY <1>0, <1>1 DEF SendClose, Put, ServerTypeOK
<1>3. ClientTypeOK' /\ Allocated' /\ Unaccepted' /\ Chunks' /\ SlotsExact' /\ NoOrphanProcess' /\ Buffered' /\
          Received' /\ InputCredit' /\ OutputCreditConserved'
  BY ONLY StreamInv, <1>1, ClientTypeOKKept, AllocatedKept, UnacceptedKept, ChunksKept, SlotsExactKept,
       NoOrphanProcessKept, BufferedKept, ReceivedKept, InputCreditKept, OutputCreditConservedKept DEF StreamInv,
       TypeOK
<1>4. ServerTypeOK'
  BY ONLY StreamInv, <1>0, <1>1, <1>2, i \in Ids, TypedStreamsAssumption DEF StreamInv, TypeOK, ServerTypeOK,
       Numbers, Put
<1>5. Answers'
  BY ONLY StreamInv, <1>0, <1>1, <1>2, i \in Ids DEF StreamInv, TypeOK, Answers, Unanswered, Addressed, Put
<1>6. QED
  BY <1>3, <1>4, <1>5 DEF Windows

\* ProcessExits preserves the invariant.
LEMMA ProcessExitsKeeps == ASSUME StreamInv, NEW i \in Ids, ProcessExits(i) PROVE Windows'
<1> USE DEF StreamInv, TypeOK, clientVars, serverVars, linkVars
<1>0. Numbers /\ Addressed
  BY NumbersHold, FramesAddressed
<1>1. /\ UNCHANGED <<toServer, toClient, lost, ended, cliDone, streams, nextStream, child, opener, reader, writer,
            closer, srvDone, slots, task, forwarder, waiter>>
      /\ server[i].pty = "running"
  BY DEF ProcessExits
<1>2. EntrySet(i, server[i].state, "exited", server[i].send, server[i].recv)
  <2>1. PICK r : r = [server[i] EXCEPT !.pty = "exited"]
    OBVIOUS
  <2>2. server \in [Ids -> Entries] /\ server[i] \in Entries /\ i \in Ids
    BY <1>0, <1>1 DEF ServerTypeOK
  <2>4. r \in Entries /\ r.state = server[i].state /\ r.pty = "exited" /\ r.send = server[i].send /\ r.recv =
        server[i].recv
    BY ONLY <2>1, <2>2 DEF Entries
  <2>5. server' = [server EXCEPT ![i] = r]
    BY <2>1 DEF ProcessExits
  <2>6. QED
    BY ONLY <2>2, <2>4, <2>5, PutPlace DEF EntrySet
<1>3. ClientTypeOK' /\ Unaccepted' /\ Chunks' /\ Buffered' /\ InputCredit'
  BY ONLY StreamInv, <1>1, ClientTypeOKKept, UnacceptedKept, ChunksKept, BufferedKept, InputCreditKept DEF
       StreamInv, TypeOK
<1>4. ServerTypeOK'
  BY ONLY StreamInv, <1>0, <1>1, <1>2, i \in Ids, TypedStreamsAssumption DEF StreamInv, TypeOK, ServerTypeOK,
       Numbers, EntrySet
<1>5. Allocated'
  BY ONLY StreamInv, <1>0, <1>1, <1>2, i \in Ids DEF StreamInv, TypeOK, Allocated, Addressed, EntrySet
<1>6. Answers'
  BY ONLY StreamInv, <1>0, <1>1, <1>2, i \in Ids DEF StreamInv, TypeOK, Answers, Unanswered, Addressed, EntrySet
<1>7. SlotsExact'
  <2>1. Holders(server') = Holders(server)
    BY ONLY <1>0, <1>1, <1>2, StreamInv, i \in Ids DEF StreamInv, Holders, EntrySet, Numbers
  <2>2. slots = Cardinality(Holders(server))
    BY DEF SlotsExact, Holders
  <2>3. slots' = Cardinality(Holders(server'))
    BY ONLY <2>1, <2>2, <1>1, HoldersCounted
  <2>4. QED
    BY ONLY <2>3 DEF SlotsExact, Holders
<1>8. NoOrphanProcess'
  BY ONLY StreamInv, <1>0, <1>1, <1>2, i \in Ids DEF StreamInv, TypeOK, NoOrphanProcess, Numbers, EntrySet
<1>9. Received'
  BY ONLY StreamInv, <1>0, <1>1, <1>2, i \in Ids DEF StreamInv, TypeOK, Received, InputTask, Numbers, EntrySet
<1>10. OutputCreditConserved'
  BY ONLY StreamInv, <1>0, <1>1, <1>2, i \in Ids DEF StreamInv, TypeOK, OutputCreditConserved, Live, Numbers,
       EntrySet
<1>11. QED
  BY <1>3, <1>4, <1>5, <1>6, <1>7, <1>8, <1>9, <1>10 DEF Windows

\* ReadPTY preserves the invariant.
LEMMA ReadPTYKeeps == ASSUME StreamInv, NEW i \in Ids, NEW n \in 1..Window, ReadPTY(i, n) PROVE Windows'
<1> USE DEF StreamInv, TypeOK, clientVars, serverVars, linkVars
<1>0. Numbers /\ Addressed
  BY NumbersHold, FramesAddressed
<1>1. /\ UNCHANGED <<toServer, toClient, lost, ended, cliDone, streams, nextStream, child, opener, reader, writer,
            closer, srvDone, slots, server, task, waiter>>
      /\ forwarder[i].step = "reading"
  BY DEF ReadPTY
<1>2. ForwarderSet(i, "holding", n, 0)
  <2>1. PICK r : r = [step |-> "holding", hold |-> n, chunk |-> 0]
    OBVIOUS
  <2>2. forwarder \in [Ids -> Forwarders] /\ forwarder[i] \in Forwarders /\ i \in Ids
    BY <1>0, <1>1 DEF ServerTypeOK, Forwarders
  <2>3. n \in 0..Window /\ 0 \in 0..Window
    BY ONLY <1>0, <1>1, <2>2, StreamInv, i \in Ids, n \in 1..Window DEF StreamInv, Numbers
  <2>4. r \in Forwarders /\ r.step = "holding" /\ r.hold = n /\ r.chunk = 0
    BY ONLY <2>1, <2>2, <2>3 DEF Forwarders
  <2>5. forwarder' = [forwarder EXCEPT ![i] = r]
    BY <2>1 DEF ReadPTY
  <2>6. QED
    BY ONLY <2>2, <2>4, <2>5, PutPlace DEF ForwarderSet
<1>3. ClientTypeOK' /\ Allocated' /\ Unaccepted' /\ SlotsExact' /\ NoOrphanProcess' /\ Buffered' /\ Received' /\
          InputCredit'
  BY ONLY StreamInv, <1>1, ClientTypeOKKept, AllocatedKept, UnacceptedKept, SlotsExactKept, NoOrphanProcessKept,
       BufferedKept, ReceivedKept, InputCreditKept DEF StreamInv, TypeOK
<1>4. ServerTypeOK'
  BY ONLY StreamInv, <1>0, <1>1, <1>2, i \in Ids, n \in 1..Window, TypedStreamsAssumption DEF StreamInv, TypeOK,
       ServerTypeOK, Chunks, Numbers, ForwarderSet, Forwarders
<1>5. Answers'
  BY ONLY StreamInv, <1>0, <1>1, <1>2, i \in Ids, n \in 1..Window DEF StreamInv, TypeOK, Answers, Unanswered,
       Chunks, Addressed, ForwarderSet
<1>6. Chunks'
  BY ONLY StreamInv, <1>0, <1>1, <1>2, i \in Ids, n \in 1..Window DEF StreamInv, TypeOK, Chunks, Numbers,
       ForwarderSet
<1>7. OutputCreditConserved'
  BY ONLY StreamInv, <1>0, <1>1, <1>2, i \in Ids, n \in 1..Window DEF StreamInv, TypeOK, OutputCreditConserved,
       Live, Chunks, Numbers, ForwarderSet
<1>8. QED
  BY <1>3, <1>4, <1>5, <1>6, <1>7 DEF Windows

\* LoseConnection preserves the invariant.
LEMMA LoseConnectionKeeps == ASSUME StreamInv, LoseConnection PROVE Windows'
<1> USE DEF StreamInv, TypeOK, clientVars, serverVars, linkVars
<1>0. Numbers /\ Addressed
  BY NumbersHold, FramesAddressed
<1>1. /\ UNCHANGED <<toServer, toClient, cliDone, streams, nextStream, child, opener, reader, writer, closer,
            srvDone, slots, server, task, forwarder, waiter>>
      /\ lost' = TRUE
  BY DEF LoseConnection
<1>2. ClientTypeOK' /\ ServerTypeOK' /\ Allocated' /\ Answers' /\ Unaccepted' /\ Chunks' /\ SlotsExact' /\
          NoOrphanProcess' /\ Buffered' /\ Received' /\ InputCredit'
  BY ONLY StreamInv, <1>1, ClientTypeOKKept, ServerTypeOKKept, AllocatedKept, AnswersKept, UnacceptedKept,
       ChunksKept, SlotsExactKept, NoOrphanProcessKept, BufferedKept, ReceivedKept, InputCreditKept DEF StreamInv,
       TypeOK
<1>3. OutputCreditConserved'
  BY ONLY StreamInv, <1>0, <1>1 DEF StreamInv, TypeOK, OutputCreditConserved, Live, Numbers
<1>4. QED
  BY <1>2, <1>3 DEF Windows

-----------------------------------------------------------------------------
(* The theorems.                                                            *)

\* Every step preserves the invariant.
LEMMA StreamInvStep == StreamInv /\ [Next]_vars => StreamInv'
<1> SUFFICES ASSUME StreamInv, [Next]_vars PROVE StreamInv'
  OBVIOUS
<1>1. LinkTypeOK' /\ Tasks'
  BY LinkTypesStep, TasksStep
<1>2. ASSUME Allocate PROVE Windows'
  BY <1>2, AllocateKeeps
<1>3. ASSUME NEW i \in Ids, WriteOpen(i) PROVE Windows'
  BY <1>3, WriteOpenKeeps
<1>4. ASSUME NEW i \in Ids, CancelOpen(i) PROVE Windows'
  BY <1>4, CancelOpenKeeps
<1>5. ASSUME NEW i \in Ids, OpenReturns(i) PROVE Windows'
  BY <1>5, OpenReturnsKeeps
<1>6. ASSUME NEW i \in Ids, BeginRead(i) PROVE Windows'
  BY <1>6, BeginReadKeeps
<1>7. ASSUME NEW i \in Ids, NEW n \in 1..Window, TakeOutput(i, n) PROVE Windows'
  BY <1>7, TakeOutputKeeps
<1>8. ASSUME NEW i \in Ids, EndRead(i) PROVE Windows'
  BY <1>8, EndReadKeeps
<1>9. ASSUME NEW i \in Ids, WriteUpdate(i) PROVE Windows'
  BY <1>9, WriteUpdateKeeps
<1>10. ASSUME NEW i \in Ids, CancelUpdate(i) PROVE Windows'
  BY <1>10, CancelUpdateKeeps, CancelUpdateLateKeeps
<1>11. ASSUME NEW i \in Ids, CreditOutput(i) PROVE Windows'
  BY <1>11, CreditOutputKeeps
<1>12. ASSUME NEW i \in Ids, NEW n \in 1..Window, TakeCredit(i, n) PROVE Windows'
  BY <1>12, TakeCreditKeeps
<1>13. ASSUME NEW i \in Ids, WriteInput(i) PROVE Windows'
  BY <1>13, WriteInputKeeps
<1>14. ASSUME NEW i \in Ids, CancelWrite(i) PROVE Windows'
  BY <1>14, CancelWriteKeeps
<1>15. ASSUME NEW i \in Ids, ResizeTerminalStream(i) PROVE Windows'
  BY <1>15, ResizeTerminalStreamKeeps
<1>16. ASSUME NEW i \in Ids, BeginClose(i) PROVE Windows'
  BY <1>16, BeginCloseKeeps
<1>17. ASSUME NEW i \in Ids, WriteClose(i) PROVE Windows'
  BY <1>17, WriteCloseKeeps
<1>18. ASSUME NEW i \in Ids, CancelClose(i) PROVE Windows'
  BY <1>18, CancelCloseKeeps, CancelCloseLateKeeps
<1>19. ASSUME NEW i \in Ids, CloseReturns(i) PROVE Windows'
  BY <1>19, CloseReturnsKeeps
<1>20. ASSUME NEW i \in Ids, CloseTimesOut(i) PROVE Windows'
  BY <1>20, CloseTimesOutKeeps
<1>21. ASSUME Finishes PROVE Windows'
  BY <1>21, FinishesKeeps
<1>22. ASSUME NEW f \in Frames, ReadsAccepted(f) PROVE Windows'
  BY <1>22, ReadsAcceptedKeeps
<1>23. ASSUME NEW f \in Frames, ReadsData(f) PROVE Windows'
  BY <1>23, ReadsDataKeeps
<1>24. ASSUME NEW f \in Frames, ReadsWindow(f) PROVE Windows'
  BY <1>24, ReadsWindowKeeps
<1>25. ASSUME NEW f \in Frames, ReadsEnd(f) PROVE Windows'
  BY <1>25, ReadsEndKeeps
<1>26. ASSUME Returns PROVE Windows'
  BY <1>26, ReturnsKeeps
<1>27. ASSUME NEW f \in Frames, TakesOpen(f) PROVE Windows'
  BY <1>27, TakesOpenKeeps
<1>28. ASSUME NEW f \in Frames, TakesData(f) PROVE Windows'
  BY <1>28, TakesDataKeeps
<1>29. ASSUME NEW f \in Frames, TakesWindow(f) PROVE Windows'
  BY <1>29, TakesWindowKeeps
<1>30. ASSUME NEW f \in Frames, TakesResize(f) PROVE Windows'
  BY <1>30, TakesResizeKeeps
<1>31. ASSUME NEW f \in Frames, TakesClosing(f) PROVE Windows'
  BY <1>31, TakesClosingKeeps
<1>32. ASSUME StartPTY PROVE Windows'
  BY <1>32, StartPTYKeeps, StartPTYFailsKeeps
<1>33. ASSUME SendAccepted PROVE Windows'
  BY <1>33, SendAcceptedKeeps
<1>34. ASSUME SendUpdate PROVE Windows'
  BY <1>34, SendUpdateKeeps
<1>35. ASSUME SendAck PROVE Windows'
  BY <1>35, SendAckKeeps
<1>36. ASSUME SendError PROVE Windows'
  BY <1>36, SendErrorKeeps
<1>37. ASSUME PtyTakesInput PROVE Windows'
  BY <1>37, PtyTakesInputKeeps
<1>38. ASSUME PtyRefusesInput PROVE Windows'
  BY <1>38, PtyRefusesInputKeeps, PtyRefusesLateKeeps
<1>39. ASSUME NEW i \in Ids, TakeOutputCredit(i) PROVE Windows'
  BY <1>39, TakeOutputCreditKeeps
<1>40. ASSUME NEW i \in Ids, SendOutput(i) PROVE Windows'
  BY <1>40, SendOutputKeeps
<1>41. ASSUME NEW i \in Ids, StopForwarding(i) PROVE Windows'
  BY <1>41, StopForwardingKeeps
<1>42. ASSUME NEW i \in Ids, WaitReturns(i) PROVE Windows'
  BY <1>42, WaitReturnsKeeps, WaitReturnsLateKeeps
<1>43. ASSUME NEW i \in Ids, SendClose(i) PROVE Windows'
  BY <1>43, SendCloseKeeps, SendCloseLateKeeps
<1>44. ASSUME NEW i \in Ids, ProcessExits(i) PROVE Windows'
  BY <1>44, ProcessExitsKeeps
<1>45. ASSUME NEW i \in Ids, NEW n \in 1..Window, ReadPTY(i, n) PROVE Windows'
  BY <1>45, ReadPTYKeeps
<1>46. ASSUME LoseConnection PROVE Windows'
  BY <1>46, LoseConnectionKeeps
<1>47. ASSUME UNCHANGED vars PROVE Windows'
  <2>1. StreamInv
    OBVIOUS
  <2>2. UNCHANGED <<toServer, toClient, lost, ended, cliDone, streams, nextStream, child, opener, reader, writer,
          closer, srvDone, slots, server, task, forwarder, waiter>>
    BY <1>47 DEF vars, clientVars, serverVars, linkVars
  <2>3. QED
    BY ONLY <2>1, <2>2, ClientTypeOKKept, ServerTypeOKKept, AllocatedKept, AnswersKept, UnacceptedKept, ChunksKept,
       SlotsExactKept, NoOrphanProcessKept, BufferedKept, ReceivedKept, InputCreditKept, OutputCreditConservedKept
       DEF Windows, StreamInv, TypeOK
<1>48. LinkTypeOK
  BY DEF StreamInv, TypeOK
<1>49. ASSUME HandleFrame \/ Disconnect \/ PolicyExpires PROVE Windows'
  BY <1>49, <1>48, HandleFrameCases, <1>26, <1>27, <1>28, <1>29, <1>30, <1>31
<1>50. ASSUME Monitor \/ MonitorEnds \/ CloseParent PROVE Windows'
  BY <1>50, <1>48, MonitorCases, <1>21, <1>22, <1>23, <1>24, <1>25
<1>51. ASSUME NEW i \in Ids, ClientStep(i) \/ ClientChoice(i) PROVE Windows'
  BY <1>51, <1>3, <1>5, <1>7, <1>8, <1>9, <1>11, <1>13, <1>17, <1>19, <1>4, <1>6, <1>10, <1>12, <1>14, <1>15, <1>16,
     <1>18, <1>20 DEF ClientStep, ClientChoice
<1>52. ASSUME DispatcherStep \/ PtyTakesInput \/ PtyRefusesInput PROVE Windows'
  BY <1>52, <1>49, <1>32, <1>33, <1>34, <1>35, <1>36, <1>37, <1>38 DEF DispatcherStep
<1>53. ASSUME NEW i \in Ids, StreamStep(i) \/ ProcessExits(i) \/ (\E n \in 1..Window : ReadPTY(i, n)) PROVE Windows'
  BY <1>53, <1>39, <1>40, <1>41, <1>42, <1>43, <1>44, <1>45 DEF StreamStep
<1>54. Windows'
  BY <1>2, <1>46, <1>47, <1>49, <1>50, <1>51, <1>52, <1>53 DEF Next
<1>55. QED
  BY <1>1, <1>54 DEF Windows, StreamInv, TypeOK

\* The accepted parent satisfies the invariant.
LEMMA StreamInvInit == Init => StreamInv
<1> SUFFICES ASSUME Init PROVE StreamInv
  OBVIOUS
<1> USE TypedStreamsAssumption DEF Init
<1>1. LinkTypeOK
  BY UnderFrames DEF LinkTypeOK, Causes
<1>2. ClientTypeOK
  <2>1. NewChild \in Children
    BY DEF NewChild, Children
  <2>2. nextStream \in FirstId..(FirstId + MaxAllocated)
    BY DEF FirstId
  <2>3. child \in [Ids -> Children] /\ reader \in [Ids -> Readers]
    BY <2>1 DEF Readers
  <2>4. QED
    BY <2>2, <2>3 DEF ClientTypeOK, Readers
<1>3. ServerTypeOK
  <2>1. NewEntry \in Entries
    BY DEF NewEntry, Entries
  <2>2. server \in [Ids -> Entries] /\ forwarder \in [Ids -> Forwarders]
    BY <2>1 DEF Forwarders
  <2>3. /\ slots \in 0..ServerLimit /\ waiter \in [Ids -> {"none", "waiting", "closing", "done"}]
        /\ task \in [step : {"idle", "starting", "accepting", "writing", "updating", "acking", "reporting"},
                    id : Ids \cup {0}, n : 0..Window]
    BY DEF Idle
  <2>4. QED
    BY <2>2, <2>3 DEF ServerTypeOK, Forwarders
<1>4. Under(toServer) = {} /\ Under(toClient) = {}
  BY UnderFrames
<1>5. \A t, j : InFlight(toServer, t, j) = 0 /\ InFlight(toClient, t, j) = 0
  BY InFlightEmpty
<1>6. Tasks
  BY DEF Tasks, Idle
<1>7. Allocated
  BY <1>4 DEF Allocated, NewEntry
<1>8. Answers
  BY <1>4 DEF Answers, NewChild
<1>9. Unaccepted
  BY <1>4 DEF Unaccepted, NewChild, Idle
<1>10. Chunks
  BY DEF Chunks
<1>11. SlotsExact
  <2>1. Holders(server) = {}
    BY DEF Holders, NewEntry
  <2>2. QED
    BY <2>1, FS_EmptySet DEF SlotsExact, Holders
<1>12. NoOrphanProcess
  BY DEF NoOrphanProcess, NewEntry
<1>13. Buffered
  BY DEF Buffered, Taken, NewChild
<1>14. Received
  BY DEF Received, InputTask, NewEntry, Idle
<1>15. InputCredit
  BY <1>5 DEF InputCredit, InputTask, NewChild, Idle
<1>16. OutputCreditConserved
  BY DEF OutputCreditConserved, Live
<1>17. QED
  BY <1>1, <1>2, <1>3, <1>6, <1>7, <1>8, <1>9, <1>10, <1>11, <1>12, <1>13, <1>14, <1>15, <1>16
     DEF StreamInv, TypeOK

\* The inductive invariant holds in every state of the multiplexer.
THEOREM StreamInvariant == Spec => []StreamInv
<1>1. Init => StreamInv
  BY StreamInvInit
<1>2. StreamInv /\ [Next]_vars => StreamInv'
  BY StreamInvStep
<1>3. QED
  BY <1>1, <1>2, PTL DEF Spec

\* Windows, buffers, slots and the state of every goroutine stay within their types.
THEOREM StreamTypeCorrect == Spec => []TypeOK
<1>1. StreamInv => TypeOK
  BY DEF StreamInv
<1>2. QED
  BY <1>1, StreamInvariant, PTL

\* Flow control of managed_multiplex.go and typed_stream_server.go neither loses nor makes
\* credit: for every stream both ends consider open the output windows and everything that
\* is under way add up to the window, the client's buffer fits its window, and the input
\* under way fits the window the server checks it against.
THEOREM StreamCreditConserved == Spec => []CreditConserved
<1>1. StreamInv => CreditConserved
  <2> SUFFICES ASSUME StreamInv PROVE CreditConserved
    OBVIOUS
  <2>1. Numbers
    BY NumbersHold DEF StreamInv
  <2>2. BufferWithinWindow
    <3>1. \A i \in streams : i \in Ids /\ ~cliDone
      BY DEF StreamInv, TypeOK, ClientTypeOK, Allocated
    <3>2. QED
      BY ONLY StreamInv, <3>1 DEF StreamInv, Buffered, Taken, BufferWithinWindow
  <2>3. InputWithinWindow
    BY ONLY StreamInv, <2>1 DEF StreamInv, Numbers, Received, InputCredit, InputTask, InputWithinWindow, Live
  <2>4. QED
    BY <2>2, <2>3 DEF CreditConserved, StreamInv
<1>2. QED
  BY <1>1, StreamInvariant, PTL

\* The slot counter is the number of streams that are opening or open, and no process
\* outlives its stream, although dispatcher, waiter and the end of the session close streams.
THEOREM StreamsClosedOnce == Spec => []ClosedOnce
<1>1. StreamInv => ClosedOnce
  BY DEF StreamInv, ClosedOnce
<1>2. QED
  BY <1>1, StreamInvariant, PTL
=============================================================================
