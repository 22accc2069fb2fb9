-------------------------- MODULE LuaBridgeProofs --------------------------
(***************************************************************************)
(* Proofs about LuaBridge: type correctness, that output stays with the    *)
(* request that echoed it, and that it goes to that request's connection,  *)
(* for any requests, connections, hooks and bounds.                        *)
(***************************************************************************)
EXTENDS LuaBridge, SequenceTheorems, TLAPS

-----------------------------------------------------------------------------
(***************************************************************************)
(* While a request is handled, hm is it and the two globals agree with it. *)
(***************************************************************************)
Current ==
    pc # "idle" => /\ hm \in Requests
                   /\ lSmsg = hm
                   /\ lScon = ConnOf[hm]

(***************************************************************************)
(* The domain of the variables together with the agreement of the globals  *)
(* with the request being handled, without which a response has no type.   *)
(***************************************************************************)
TypeInv == LbTypeOK /\ Current

\* The elements of a sequence after one is appended.
LEMMA AppendIndex ==
    ASSUME NEW S, NEW s \in Seq(S), NEW x \in S, NEW t, t = Append(s, x)
    PROVE  /\ t \in Seq(S)
           /\ \A i \in DOMAIN t : \/ i = Len(s) + 1 /\ t[i] = x
                                  \/ i \in DOMAIN s /\ t[i] = s[i]
<1>1. /\ Len(t) = Len(s) + 1
      /\ t \in Seq(S)
      /\ \A j \in 1 .. Len(s) : t[j] = s[j]
      /\ t[Len(s) + 1] = x
  BY AppendProperties
<1>2. DOMAIN t = 1 .. Len(s) + 1 /\ DOMAIN s = 1 .. Len(s) /\ Len(s) \in Nat
  BY <1>1, LenProperties
<1> QED
  BY <1>1, <1>2

\* The pieces one call of b_echo appends.
Echoed(n) == [i \in 1..n |-> [by |-> lSmsg, id |-> echoed + i]]

LEMMA EchoedType ==
    ASSUME TypeInv, pc # "idle", NEW n \in Nat
    PROVE  Echoed(n) \in Seq(Piece)
<1>1. \A i \in 1..n : [by |-> lSmsg, id |-> echoed + i] \in Piece
  BY DEF TypeInv, LbTypeOK, Current, Piece
<1> QED
  BY <1>1 DEF Echoed

\* What the two forms of b_flush do to the types.
LEMMA FlushType ==
    ASSUME TypeInv, pc # "idle", FlushDefault \/ FlushTyped
    PROVE  buf' \in Seq(Piece) /\ wire' \in Seq(Response)
<1>1. HeadOnly("flush") \in Response
  BY LuaBridgeAssumption
  DEF TypeInv, LbTypeOK, Current, Response, HeadOnly, LuaBridgeAssumption
<1>2. HeadAndBody("flush_ct") \in Response
  BY LuaBridgeAssumption
  DEF TypeInv, LbTypeOK, Current, Response, HeadAndBody, LuaBridgeAssumption
<1>3. <<>> \in Seq(Piece) /\ wire \in Seq(Response)
  BY DEF TypeInv, LbTypeOK
<1>4. CASE FlushDefault
  BY <1>1, <1>3, <1>4 DEF FlushDefault
<1>5. CASE FlushTyped
  BY <1>2, <1>3, <1>5 DEF FlushTyped
<1> QED
  BY <1>4, <1>5

LEMMA TypeInvInit == LbInit => TypeInv
BY DEF LbInit, TypeInv, LbTypeOK, Current

LEMMA TypeInvNext == TypeInv /\ [LbNext]_lbVars => TypeInv'
<1> SUFFICES ASSUME TypeInv, [LbNext]_lbVars PROVE TypeInv'
  OBVIOUS
<1> USE LuaBridgeAssumption DEF LuaBridgeAssumption, hooks, TypeInv, LbTypeOK, Current
<1>1. ASSUME NEW r \in Requests, Enter(r) PROVE TypeInv'
  BY <1>1 DEF Enter
<1>2. CASE RunAcceptHook
  BY <1>2 DEF RunAcceptHook
<1>3. ASSUME NEW n \in 0..MaxArgs, BEcho(n) PROVE TypeInv'
  <2>1. Echoed(n) \in Seq(Piece)
    BY <1>3, EchoedType DEF BEcho, ScriptCall
  <2>2. buf' = buf \o Echoed(n)
    BY <1>3 DEF BEcho, Echoed
  <2>3. buf' \in Seq(Piece)
    BY <2>1, <2>2
  <2>4. echoed' \in Nat /\ calls' \in Nat
    BY <1>3 DEF BEcho, ScriptCall
  <2> QED
    BY <1>3, <2>3, <2>4 DEF BEcho, ScriptCall
<1>4. CASE BFlush
  <2>1. buf' \in Seq(Piece) /\ wire' \in Seq(Response)
    BY <1>4, FlushType DEF BFlush, ScriptCall
  <2> QED
    BY <1>4, <2>1 DEF BFlush, ScriptCall
<1>5. CASE BClear
  BY <1>5 DEF BClear, Clear, ScriptCall
<1>6. CASE ScriptReturns
  BY <1>6 DEF ScriptReturns
<1>7. CASE ScriptFails
  <2>1. CannotRun \in Response
    BY <1>7 DEF ScriptFails, CannotRun, Response
  <2>2. wire' \in Seq(Response)
    BY <1>7, <2>1 DEF ScriptFails
  <2>3. buf' \in Seq(Piece)
    BY <1>7 DEF ScriptFails
  <2>4. owing' \in SUBSET Requests
    BY <1>7 DEF ScriptFails
  <2> QED
    BY <1>7, <2>2, <2>3, <2>4 DEF ScriptFails
<1>8. CASE RunFinishedHook
  <2>1. buf' \in Seq(Piece) /\ wire' \in Seq(Response)
    <3>1. CASE FlushDefault \/ FlushTyped
      BY <1>8, <3>1, FlushType DEF RunFinishedHook
    <3>2. CASE Clear
      BY <3>2 DEF Clear
    <3>3. CASE UNCHANGED <<buf, wire>>
      BY <3>3
    <3> QED
      BY <1>8, <3>1, <3>2, <3>3 DEF RunFinishedHook
  <2> QED
    BY <1>8, <2>1 DEF RunFinishedHook
<1>9. CASE UNCHANGED lbVars
  BY <1>9 DEF lbVars, hooks
<1> QED
  BY <1>1, <1>2, <1>3, <1>4, <1>5, <1>6, <1>7, <1>8, <1>9 DEF LbNext

(***************************************************************************)
(* Type correctness of lstate.c's globals and lmodule.c's buffer.          *)
(***************************************************************************)
THEOREM TypeCorrect == LbSpec => []LbTypeOK
<1>1. TypeInv => LbTypeOK
  BY DEF TypeInv
<1> QED
  BY <1>1, TypeInvInit, TypeInvNext, PTL DEF LbSpec

-----------------------------------------------------------------------------
(***************************************************************************)
(* The only way a step extends what was sent: one response, made by the    *)
(* request being handled while its script or its hook runs, to that        *)
(* request's connection, carrying nothing or the whole buffer.             *)
(***************************************************************************)
Answers(x) ==
    /\ x \in Response
    /\ wire' = Append(wire, x)
    /\ pc \in {"script", "finish"}
    /\ hm' = hm
    /\ x.for = hm
    /\ x.to = ConnOf[hm]
    /\ x.pieces \in {<<>>, buf}

LEMMA FlushAnswers ==
    ASSUME TypeInv, pc \in {"script", "finish"}, hm' = hm,
           FlushDefault \/ FlushTyped
    PROVE  \E x : Answers(x)
<1> USE LuaBridgeAssumption
    DEF LuaBridgeAssumption, TypeInv, LbTypeOK, Current, Response, Answers
<1>1. CASE FlushDefault
  <2>1. Answers(HeadOnly("flush"))
    BY <1>1 DEF FlushDefault, HeadOnly
  <2> QED
    BY <2>1
<1>2. CASE FlushTyped
  <2>1. Answers(HeadAndBody("flush_ct"))
    BY <1>2 DEF FlushTyped, HeadAndBody
  <2> QED
    BY <2>1
<1> QED
  BY <1>1, <1>2

LEMMA WireStep ==
    ASSUME TypeInv, [LbNext]_lbVars
    PROVE  wire' = wire \/ \E x : Answers(x)
<1>1. ASSUME NEW r \in Requests, Enter(r) PROVE wire' = wire
  BY <1>1 DEF Enter
<1>2. CASE RunAcceptHook
  BY <1>2 DEF RunAcceptHook
<1>3. ASSUME NEW n \in 0..MaxArgs, BEcho(n) PROVE wire' = wire
  BY <1>3 DEF BEcho
<1>4. CASE BFlush
  BY <1>4, FlushAnswers DEF BFlush, ScriptCall
<1>5. CASE BClear
  BY <1>5 DEF BClear, Clear
<1>6. CASE ScriptReturns
  BY <1>6 DEF ScriptReturns
<1>7. CASE ScriptFails
  <2>1. CannotRun \in Response
    BY <1>7, LuaBridgeAssumption
    DEF ScriptFails, CannotRun, Response, TypeInv, LbTypeOK, Current,
        LuaBridgeAssumption
  <2>2. Answers(CannotRun)
    BY <1>7, <2>1 DEF ScriptFails, Answers, CannotRun
  <2> QED
    BY <2>2
<1>8. CASE RunFinishedHook
  BY <1>8, FlushAnswers DEF RunFinishedHook, Clear
<1>9. CASE UNCHANGED lbVars
  BY <1>9 DEF lbVars
<1> QED
  BY <1>1, <1>2, <1>3, <1>4, <1>5, <1>6, <1>7, <1>8, <1>9 DEF LbNext

(***************************************************************************)
(* Responses go to the connection of the request they answer, although     *)
(* b_flush takes it from a global.                                         *)
(***************************************************************************)
THEOREM RightConnection == LbSpec => []ToTheRequester
<1>1. LbInit => ToTheRequester
  BY DEF LbInit, ToTheRequester
<1>2. TypeInv /\ ToTheRequester /\ [LbNext]_lbVars => ToTheRequester'
  <2> SUFFICES ASSUME TypeInv, ToTheRequester, [LbNext]_lbVars
               PROVE  ToTheRequester'
    OBVIOUS
  <2>1. CASE wire' = wire
    BY <2>1 DEF ToTheRequester
  <2>2. ASSUME NEW x, Answers(x) PROVE ToTheRequester'
    <3>1. wire \in Seq(Response) /\ x \in Response
      BY <2>2 DEF TypeInv, LbTypeOK, Answers
    <3>2. wire' = Append(wire, x)
      BY <2>2 DEF Answers
    <3>3. \A i \in DOMAIN wire' :
              \/ i = Len(wire) + 1 /\ wire'[i] = x
              \/ i \in DOMAIN wire /\ wire'[i] = wire[i]
      BY <3>1, <3>2, AppendIndex
    <3> QED
      BY <2>2, <3>3 DEF ToTheRequester, Answers
  <2> QED
    BY <2>1, <2>2, WireStep
<1> QED
  BY <1>1, <1>2, TypeInvInit, TypeInvNext, PTL DEF LbSpec

-----------------------------------------------------------------------------
(***************************************************************************)
(* Output in the buffer or in another request's response is owed by a      *)
(* request that has been handled.  The part about the responses:           *)
(***************************************************************************)
ForeignOwed ==
    \A i \in DOMAIN wire : \A j \in DOMAIN wire[i].pieces :
        Foreign(i, j) => /\ wire[i].pieces[j].by \in owing \ pending
                         /\ pc # "idle" => wire[i].pieces[j].by # hm

\* A response that is sent adds no foreign output but what the buffer holds.
LEMMA AnswerOwed ==
    ASSUME TypeInv, OwedInv, NEW x, Answers(x),
           pending' = pending, owing \ {hm} \subseteq owing'
    PROVE  ForeignOwed'
<1>1. wire \in Seq(Response) /\ x \in Response
  BY DEF TypeInv, LbTypeOK, Answers
<1>2. wire' = Append(wire, x) /\ hm' = hm /\ x.for = hm
  BY DEF Answers
<1>3. \A i \in DOMAIN wire' :
          \/ i = Len(wire) + 1 /\ wire'[i] = x
          \/ i \in DOMAIN wire /\ wire'[i] = wire[i]
  BY <1>1, <1>2, AppendIndex
<1>4. pc # "idle"
  BY DEF Answers
<1>5. \A j \in DOMAIN x.pieces :
          x.pieces[j].by \in owing \ pending
  BY DEF Answers, OwedInv
<1> SUFFICES ASSUME NEW i \in DOMAIN wire', NEW j \in DOMAIN wire'[i].pieces,
                    wire'[i].pieces[j].by # wire'[i].for
             PROVE  /\ wire'[i].pieces[j].by \in owing' \ pending'
                    /\ wire'[i].pieces[j].by # hm'
  BY DEF ForeignOwed, Foreign
<1>6. CASE wire'[i] = x
  BY <1>2, <1>5, <1>6
<1>7. CASE i \in DOMAIN wire /\ wire'[i] = wire[i]
  BY <1>2, <1>4, <1>7 DEF OwedInv, Foreign
<1> QED
  BY <1>3, <1>6, <1>7

\* A step that sends nothing keeps the part about the responses.
LEMMA SilentOwed ==
    ASSUME OwedInv, wire' = wire, pending' \subseteq pending,
           pc = "idle" => owing \subseteq owing',
           owing \ {hm} \subseteq owing',
           pc' # "idle" => (pc # "idle" /\ hm' = hm) \/ hm' \in pending
    PROVE  ForeignOwed'
<1> SUFFICES ASSUME NEW i \in DOMAIN wire, NEW j \in DOMAIN wire[i].pieces,
                    wire[i].pieces[j].by # wire[i].for
             PROVE  /\ wire[i].pieces[j].by \in owing' \ pending'
                    /\ pc' # "idle" => wire[i].pieces[j].by # hm'
  BY DEF ForeignOwed, Foreign
<1>1. /\ wire[i].pieces[j].by \in owing \ pending
      /\ pc # "idle" => wire[i].pieces[j].by # hm
  BY DEF OwedInv, Foreign
<1> QED
  BY <1>1

LEMMA OwedInvNext == TypeInv /\ OwedInv /\ [LbNext]_lbVars => OwedInv'
<1> SUFFICES ASSUME TypeInv, OwedInv, [LbNext]_lbVars PROVE OwedInv'
  OBVIOUS
<1>s. OwedInv <=> /\ pc # "idle" => hm \notin pending
                  /\ \A k \in DOMAIN buf : buf[k].by \in owing \ pending
                  /\ ForeignOwed
  BY DEF OwedInv, ForeignOwed
<1>p. OwedInv' <=> /\ pc' # "idle" => hm' \notin pending'
                   /\ \A k \in DOMAIN buf' : buf'[k].by \in owing' \ pending'
                   /\ ForeignOwed'
  BY DEF OwedInv, ForeignOwed
<1>e. DOMAIN <<>> = {}
  OBVIOUS
<1>1. ASSUME NEW r \in Requests, Enter(r) PROVE OwedInv'
  <2>1. ForeignOwed'
    BY <1>1, SilentOwed DEF Enter
  <2> QED
    BY <1>1, <1>s, <1>p, <2>1 DEF Enter
<1>2. CASE RunAcceptHook
  <2>1. ForeignOwed'
    BY <1>2, SilentOwed DEF RunAcceptHook
  <2> QED
    BY <1>2, <1>s, <1>p, <1>e, <2>1 DEF RunAcceptHook
<1>3. ASSUME NEW n \in 0..MaxArgs, BEcho(n) PROVE OwedInv'
  <2>1. ForeignOwed'
    BY <1>3, SilentOwed DEF BEcho, ScriptCall
  <2>2. n \in Nat /\ Echoed(n) \in Seq(Piece) /\ buf \in Seq(Piece)
    BY <1>3, EchoedType, LuaBridgeAssumption
    DEF LuaBridgeAssumption, BEcho, ScriptCall, TypeInv, LbTypeOK
  <2>3. buf' = buf \o Echoed(n) /\ pc = "script" /\ pc' = pc /\ hm' = hm
    BY <1>3 DEF BEcho, ScriptCall, Echoed
  <2>4. Len(Echoed(n)) = n /\ \A k \in 1..n : Echoed(n)[k].by = hm
    BY <2>2, <2>3 DEF Echoed, TypeInv, Current
  <2>5. ASSUME NEW k \in DOMAIN buf' PROVE buf'[k].by \in owing' \ pending'
    <3>1. CASE k \in 1..Len(buf)
      <4>1. buf'[k] = buf[k] /\ k \in DOMAIN buf
        BY <2>2, <2>3, <3>1
      <4> QED
        BY <1>3, <4>1 DEF OwedInv, BEcho, ScriptCall
    <3>2. CASE k \in Len(buf) + 1 .. Len(buf) + n
      <4>1. buf'[k] = Echoed(n)[k - Len(buf)] /\ k - Len(buf) \in 1..n
        BY <2>2, <2>3, <2>4, <3>2
      <4>2. buf'[k].by = hm /\ n > 0
        BY <2>2, <2>4, <4>1
      <4> QED
        BY <1>3, <4>2, <2>3 DEF OwedInv, BEcho, ScriptCall
    <3>3. k \in 1..Len(buf) + n
      BY <2>2, <2>3, <2>4
    <3> QED
      BY <2>2, <3>1, <3>2, <3>3
  <2> QED
    BY <1>3, <1>s, <1>p, <2>1, <2>5 DEF BEcho, ScriptCall
<1>4. CASE BFlush
  <2>1. \E x : Answers(x)
    BY <1>4, FlushAnswers DEF BFlush, ScriptCall
  <2>2. ForeignOwed'
    BY <1>4, <2>1, AnswerOwed DEF BFlush, ScriptCall
  <2> QED
    BY <1>4, <1>s, <1>p, <1>e, <2>2
    DEF BFlush, ScriptCall, FlushDefault, FlushTyped
<1>5. CASE BClear
  <2>1. ForeignOwed'
    BY <1>5, SilentOwed DEF BClear, Clear, ScriptCall
  <2> QED
    BY <1>5, <1>s, <1>p, <1>e, <2>1 DEF BClear, Clear, ScriptCall
<1>6. CASE ScriptReturns
  <2>1. ForeignOwed'
    BY <1>6, SilentOwed DEF ScriptReturns
  <2> QED
    BY <1>6, <1>s, <1>p, <2>1 DEF ScriptReturns
<1>7. CASE ScriptFails
  <2>1. Answers(CannotRun)
    <3>1. CannotRun \in Response
      BY <1>7, LuaBridgeAssumption
      DEF ScriptFails, CannotRun, Response, TypeInv, LbTypeOK, Current,
          LuaBridgeAssumption
    <3> QED
      BY <1>7, <3>1 DEF ScriptFails, Answers, CannotRun
  <2>2. ForeignOwed'
    BY <1>7, <2>1, AnswerOwed DEF ScriptFails
  <2> QED
    BY <1>7, <1>s, <1>p, <1>e, <2>2 DEF ScriptFails
<1>8. CASE RunFinishedHook
  <2>1. ForeignOwed'
    <3>1. CASE FlushDefault \/ FlushTyped
      <4>1. \E x : Answers(x)
        BY <1>8, <3>1, FlushAnswers DEF RunFinishedHook
      <4> QED
        BY <1>8, <4>1, AnswerOwed DEF RunFinishedHook
    <3>2. CASE Clear \/ UNCHANGED <<buf, wire>>
      BY <1>8, <3>2, SilentOwed DEF RunFinishedHook, Clear
    <3> QED
      BY <1>8, <3>1, <3>2 DEF RunFinishedHook
  <2>2. \A k \in DOMAIN buf' : buf'[k].by \in owing' \ pending'
    <3>1. CASE finishedHook = "none"
      BY <1>8, <3>1, <1>s DEF RunFinishedHook
    <3>2. CASE finishedHook # "none"
      BY <1>8, <3>2, <1>e DEF RunFinishedHook, FlushDefault, FlushTyped, Clear
    <3> QED
      BY <3>1, <3>2
  <2> QED
    BY <1>8, <1>p, <2>1, <2>2 DEF RunFinishedHook
<1>9. CASE UNCHANGED lbVars
  BY <1>9 DEF lbVars, OwedInv, Foreign
<1> QED
  BY <1>1, <1>2, <1>3, <1>4, <1>5, <1>6, <1>7, <1>8, <1>9 DEF LbNext

(***************************************************************************)
(* Output appears in another request's response only if its owner ended    *)
(* with output it neither flushed nor cleared.                             *)
(***************************************************************************)
THEOREM OutputIsolated == LbSpec => []Isolation
<1>1. LbInit => OwedInv
  BY DEF LbInit, OwedInv, Foreign
<1>2. OwedInv => Isolation
  BY DEF OwedInv, Isolation, Foreign
<1> QED
  BY <1>1, <1>2, OwedInvNext, TypeInvInit, TypeInvNext, PTL DEF LbSpec

-----------------------------------------------------------------------------
LEMMA HookInvNext == TypeInv /\ HookInv /\ [LbNext]_lbVars => HookInv'
<1> SUFFICES ASSUME TypeInv, HookInv, [LbNext]_lbVars PROVE HookInv'
  OBVIOUS
<1>e. DOMAIN <<>> = {}
  OBVIOUS
<1> USE DEF HookInv, OwnOutputOnly
<1>1. ASSUME NEW r \in Requests, Enter(r) PROVE HookInv'
  BY <1>1, <1>e DEF Enter, hooks
<1>2. CASE RunAcceptHook
  BY <1>2, <1>e DEF RunAcceptHook, hooks
<1>3. ASSUME NEW n \in 0..MaxArgs, BEcho(n) PROVE HookInv'
  <2>1. n \in Nat /\ Echoed(n) \in Seq(Piece) /\ buf \in Seq(Piece)
    BY <1>3, EchoedType, LuaBridgeAssumption
    DEF LuaBridgeAssumption, BEcho, ScriptCall, TypeInv, LbTypeOK
  <2>2. /\ buf' = buf \o Echoed(n)
        /\ pc = "script" /\ pc' = pc /\ hm' = hm
        /\ acceptHook' = acceptHook /\ finishedHook' = finishedHook
    BY <1>3 DEF BEcho, ScriptCall, Echoed, hooks
  <2>3. Len(Echoed(n)) = n /\ \A k \in 1..n : Echoed(n)[k].by = hm
    BY <2>1, <2>2 DEF Echoed, TypeInv, Current
  <2>4. OwnOutputOnly => \A k \in DOMAIN buf' : buf'[k].by = hm
    <3> SUFFICES ASSUME OwnOutputOnly, NEW k \in DOMAIN buf'
                 PROVE  buf'[k].by = hm
      OBVIOUS
    <3>1. CASE k \in 1..Len(buf)
      BY <2>1, <2>2, <3>1
    <3>2. CASE k \in Len(buf) + 1 .. Len(buf) + n
      <4>1. buf'[k] = Echoed(n)[k - Len(buf)] /\ k - Len(buf) \in 1..n
        BY <2>1, <2>2, <2>3, <3>2
      <4> QED
        BY <2>3, <4>1
    <3>3. k \in 1..Len(buf) + n
      BY <2>1, <2>2, <2>3
    <3> QED
      BY <2>1, <3>1, <3>2, <3>3
  <2> QED
    BY <2>2, <2>4
<1>4. CASE BFlush
  BY <1>4, <1>e DEF BFlush, ScriptCall, FlushDefault, FlushTyped, hooks
<1>5. CASE BClear
  BY <1>5, <1>e DEF BClear, ScriptCall, Clear, hooks
<1>6. CASE ScriptReturns
  BY <1>6 DEF ScriptReturns, hooks
<1>7. CASE ScriptFails
  BY <1>7, <1>e DEF ScriptFails, hooks
<1>8. CASE RunFinishedHook
  BY <1>8, <1>e DEF RunFinishedHook, FlushDefault, FlushTyped, Clear, hooks
<1>9. CASE UNCHANGED lbVars
  BY <1>9 DEF lbVars, hooks
<1> QED
  BY <1>1, <1>2, <1>3, <1>4, <1>5, <1>6, <1>7, <1>8, <1>9 DEF LbNext

\* No step changes the hooks.
LEMMA HooksFixed == [LbNext]_lbVars => UNCHANGED hooks
BY DEF LbNext, lbVars, hooks, Enter, RunAcceptHook, BEcho, BFlush, BClear,
       ScriptCall, ScriptReturns, ScriptFails, RunFinishedHook

(***************************************************************************)
(* A hook that empties the buffer, before every script or after it, keeps  *)
(* every response free of other requests' output.                          *)
(***************************************************************************)
THEOREM HooksIsolate == LbSpec => []HookIsolates
<1>1. LbInit => HookInv /\ HookIsolates
  BY DEF LbInit, HookInv, OwnOutputOnly, HookIsolates
<1>2. TypeInv /\ HookInv /\ HookIsolates /\ [LbNext]_lbVars => HookIsolates'
  <2> SUFFICES ASSUME TypeInv, HookInv, HookIsolates, [LbNext]_lbVars,
                      acceptHook = "clear" \/ finishedHook # "none"
               PROVE  \A i \in DOMAIN wire' : \A j \in DOMAIN wire'[i].pieces :
                          wire'[i].pieces[j].by = wire'[i].for
    BY HooksFixed DEF HookIsolates, hooks
  <2>1. CASE wire' = wire
    BY <2>1 DEF HookIsolates
  <2>2. ASSUME NEW x, Answers(x)
        PROVE  \A i \in DOMAIN wire' : \A j \in DOMAIN wire'[i].pieces :
                   wire'[i].pieces[j].by = wire'[i].for
    <3>1. wire \in Seq(Response) /\ x \in Response
      BY <2>2 DEF TypeInv, LbTypeOK, Answers
    <3>2. wire' = Append(wire, x)
      BY <2>2 DEF Answers
    <3>3. \A i \in DOMAIN wire' :
              \/ i = Len(wire) + 1 /\ wire'[i] = x
              \/ i \in DOMAIN wire /\ wire'[i] = wire[i]
      BY <3>1, <3>2, AppendIndex
    <3>4. OwnOutputOnly
      BY <2>2 DEF HookInv, Answers
    <3>5. \A j \in DOMAIN x.pieces : x.pieces[j].by = x.for
      BY <2>2, <3>4 DEF Answers, OwnOutputOnly
    <3> QED
      BY <3>3, <3>5 DEF HookIsolates
  <2> QED
    BY <2>1, <2>2, WireStep
<1> QED
  BY <1>1, <1>2, HookInvNext, TypeInvInit, TypeInvNext, PTL DEF LbSpec

(***************************************************************************)
(* Every response is the requester's: sent to its connection, with its     *)
(* output and no other's.                                                  *)
(***************************************************************************)
THEOREM OutputIsOwn == LbSpec => []Isolated
<1>1. Isolation /\ HookIsolates /\ ToTheRequester => Isolated
  BY DEF Isolated
<1>. QED
  BY <1>1, OutputIsolated, HooksIsolate, RightConnection, PTL


-----------------------------------------------------------------------------
(***************************************************************************)
(* A step treats the buffer in one of three ways: it sends nothing and     *)
(* keeps or empties it, it appends what b_echo is given, or it sends a     *)
(* response, which takes the pieces out of the buffer if it carries them.  *)
(***************************************************************************)
Silent ==
    /\ wire' = wire /\ echoed' = echoed
    /\ buf' \in {buf, <<>>}

Echoes(n) ==
    /\ wire' = wire /\ echoed' = echoed + n
    /\ buf' = buf \o Echoed(n)
    /\ pc = "script" /\ pc' = pc /\ hm' = hm /\ pending' = pending

Sends(x) ==
    /\ Answers(x) /\ echoed' = echoed /\ pending' = pending
    /\ buf' \in {buf, <<>>}
    /\ x.pieces = <<>> \/ buf' = <<>>
    /\ x.kind = "error" => /\ pc' = "finish"
                           /\ InitLoaded => buf' = <<>>
    /\ x.kind # "error" => pc' = pc \/ pc' = "idle"

LEMMA FlushSends ==
    ASSUME TypeInv, pc \in {"script", "finish"}, hm' = hm,
           echoed' = echoed, pending' = pending, pc' = pc \/ pc' = "idle",
           FlushDefault \/ FlushTyped
    PROVE  \E x : Sends(x)
<1> USE LuaBridgeAssumption
    DEF LuaBridgeAssumption, TypeInv, LbTypeOK, Current, Response, Answers, Sends
<1>1. CASE FlushDefault
  <2>1. Sends(HeadOnly("flush"))
    BY <1>1 DEF FlushDefault, HeadOnly
  <2> QED
    BY <2>1
<1>2. CASE FlushTyped
  <2>1. Sends(HeadAndBody("flush_ct"))
    BY <1>2 DEF FlushTyped, HeadAndBody
  <2> QED
    BY <2>1
<1> QED
  BY <1>1, <1>2

LEMMA BufferStep ==
    ASSUME TypeInv, [LbNext]_lbVars
    PROVE  Silent \/ (\E n \in Nat : Echoes(n)) \/ (\E x : Sends(x))
<1>1. ASSUME NEW r \in Requests, Enter(r) PROVE Silent
  BY <1>1 DEF Enter, Silent
<1>2. CASE RunAcceptHook
  BY <1>2 DEF RunAcceptHook, Silent
<1>3. ASSUME NEW n \in 0..MaxArgs, BEcho(n) PROVE \E k \in Nat : Echoes(k)
  <2>1. n \in Nat
    BY LuaBridgeAssumption DEF LuaBridgeAssumption
  <2>2. Echoes(n)
    BY <1>3 DEF BEcho, ScriptCall, Echoes, Echoed
  <2> QED
    BY <2>1, <2>2
<1>4. CASE BFlush
  BY <1>4, FlushSends DEF BFlush, ScriptCall
<1>5. CASE BClear
  BY <1>5 DEF BClear, Clear, Silent
<1>6. CASE ScriptReturns
  BY <1>6 DEF ScriptReturns, Silent
<1>7. CASE ScriptFails
  <2>1. CannotRun \in Response
    BY <1>7, LuaBridgeAssumption
    DEF ScriptFails, CannotRun, Response, TypeInv, LbTypeOK, Current,
        LuaBridgeAssumption
  <2>2. Answers(CannotRun)
    BY <1>7, <2>1 DEF ScriptFails, Answers, CannotRun
  <2>3. Sends(CannotRun)
    BY <1>7, <2>2 DEF ScriptFails, Sends, CannotRun
  <2> QED
    BY <2>3
<1>8. CASE RunFinishedHook
  <2>1. CASE FlushDefault \/ FlushTyped
    BY <1>8, <2>1, FlushSends DEF RunFinishedHook
  <2>2. CASE Clear \/ UNCHANGED <<buf, wire>>
    BY <1>8, <2>2 DEF RunFinishedHook, Clear, Silent
  <2> QED
    BY <1>8, <2>1, <2>2 DEF RunFinishedHook
<1>9. CASE UNCHANGED lbVars
  BY <1>9 DEF lbVars, Silent
<1> QED
  BY <1>1, <1>2, <1>3, <1>4, <1>5, <1>6, <1>7, <1>8, <1>9 DEF LbNext

\* What one call of b_echo appends: the pieces that were there come first, the
\* new ones are the current request's, numbered on from the last.
LEMMA EchoIndex ==
    ASSUME TypeInv, NEW n \in Nat, Echoes(n)
    PROVE  \A k \in DOMAIN buf' :
              /\ k \in Nat
              /\ \/ k \in DOMAIN buf /\ buf'[k] = buf[k]
                 \/ /\ k > Len(buf) /\ k <= Len(buf) + n
                    /\ buf'[k] = [by |-> hm, id |-> echoed + (k - Len(buf))]
<1>1. Echoed(n) \in Seq(Piece) /\ buf \in Seq(Piece)
  BY EchoedType DEF Echoes, TypeInv, LbTypeOK
<1>2. Len(Echoed(n)) = n
  BY <1>1 DEF Echoed
<1>3. \A k \in 1..n : Echoed(n)[k] = [by |-> hm, id |-> echoed + k]
  BY DEF Echoed, Echoes, TypeInv, Current
<1>4. buf' = buf \o Echoed(n)
  BY DEF Echoes
<1>5. DOMAIN buf' = 1 .. Len(buf) + n /\ DOMAIN buf = 1 .. Len(buf)
      /\ Len(buf) \in Nat
  <2>1. /\ buf \o Echoed(n) \in Seq(Piece)
        /\ Len(buf \o Echoed(n)) = Len(buf) + Len(Echoed(n))
    BY <1>1
  <2> QED
    BY <1>1, <1>2, <1>4, <2>1
<1> SUFFICES ASSUME NEW k \in DOMAIN buf'
             PROVE  \/ k \in DOMAIN buf /\ buf'[k] = buf[k]
                    \/ /\ k > Len(buf) /\ k <= Len(buf) + n
                       /\ buf'[k] = [by |-> hm, id |-> echoed + (k - Len(buf))]
  BY <1>5
<1>6. CASE k <= Len(buf)
  BY <1>1, <1>2, <1>4, <1>5, <1>6
<1>7. CASE k > Len(buf)
  <2>1. k - Len(buf) \in 1..n
    BY <1>5, <1>7
  <2>2. buf'[k] = Echoed(n)[k - Len(buf)]
    BY <1>1, <1>2, <1>4, <1>5, <1>7, <2>1
  <2> QED
    BY <1>3, <1>5, <1>7, <2>1, <2>2
<1> QED
  BY <1>5, <1>6, <1>7

(***************************************************************************)
(* The strengthening of OutputInOrder: the buffer is itself in order, and  *)
(* no number is above that of the last piece echoed.                       *)
(***************************************************************************)
OrderInv ==
    /\ OutputInOrder
    /\ \A j, k \in DOMAIN buf : j < k => buf[j].id < buf[k].id
    /\ \A k \in DOMAIN buf : buf[k].id <= echoed
    /\ \A i \in DOMAIN wire : \A j \in DOMAIN wire[i].pieces :
          wire[i].pieces[j].id <= echoed

LEMMA OrderInvNext == TypeInv /\ OrderInv /\ [LbNext]_lbVars => OrderInv'
<1> SUFFICES ASSUME TypeInv, OrderInv, [LbNext]_lbVars PROVE OrderInv'
  OBVIOUS
<1>e. DOMAIN <<>> = {}
  OBVIOUS
<1>t. /\ echoed \in Nat /\ wire \in Seq(Response)
      /\ \A k \in DOMAIN buf : buf[k].id \in Nat
      /\ \A i \in DOMAIN wire : \A j \in DOMAIN wire[i].pieces :
            wire[i].pieces[j].id \in Nat
  <2>1. buf \in Seq(Piece) /\ echoed \in Nat /\ wire \in Seq(Response)
    BY DEF TypeInv, LbTypeOK
  <2>2. \A k \in DOMAIN buf : buf[k] \in Piece
    BY <2>1
  <2>3. \A i \in DOMAIN wire : wire[i] \in Response
    BY <2>1
  <2>4. \A i \in DOMAIN wire : wire[i].pieces \in Seq(Piece)
    BY <2>3 DEF Response
  <2>5. \A i \in DOMAIN wire : \A j \in DOMAIN wire[i].pieces :
            wire[i].pieces[j] \in Piece
    BY <2>4
  <2> QED
    BY <2>1, <2>2, <2>5 DEF Piece
<1>1. CASE Silent
  BY <1>1, <1>e DEF Silent, OrderInv, OutputInOrder
<1>2. ASSUME NEW n \in Nat, Echoes(n) PROVE OrderInv'
  <2>1. \A k \in DOMAIN buf' :
            /\ k \in Nat
            /\ \/ k \in DOMAIN buf /\ buf'[k] = buf[k]
               \/ /\ k > Len(buf) /\ k <= Len(buf) + n
                  /\ buf'[k].id = echoed + (k - Len(buf))
    BY <1>2, EchoIndex
  <2>2. wire' = wire /\ echoed' = echoed + n
    BY <1>2 DEF Echoes
  <2>3. DOMAIN buf = 1 .. Len(buf) /\ Len(buf) \in Nat
    BY DEF TypeInv, LbTypeOK
  <2>4. \A k \in DOMAIN buf' : buf'[k].id <= echoed'
    BY <1>t, <2>1, <2>2, <2>3 DEF OrderInv
  <2>5. \A i \in DOMAIN wire : \A j \in DOMAIN wire[i].pieces :
            wire[i].pieces[j].id <= echoed'
    BY <1>t, <2>2 DEF OrderInv
  <2>6. \A j, k \in DOMAIN buf' : j < k => buf'[j].id < buf'[k].id
    <3> SUFFICES ASSUME NEW j \in DOMAIN buf', NEW k \in DOMAIN buf', j < k
                 PROVE  buf'[j].id < buf'[k].id
      OBVIOUS
    <3>1. CASE k \in DOMAIN buf /\ buf'[k] = buf[k]
      <4>1. j \in DOMAIN buf /\ buf'[j] = buf[j]
        BY <2>1, <2>3, <3>1
      <4> QED
        BY <3>1, <4>1 DEF OrderInv
    <3>2. CASE k > Len(buf) /\ buf'[k].id = echoed + (k - Len(buf))
      <4>1. CASE j \in DOMAIN buf /\ buf'[j] = buf[j]
        <5>1. buf[j].id <= echoed /\ buf[j].id \in Nat
          BY <1>t, <4>1 DEF OrderInv
        <5> QED
          BY <1>t, <2>1, <2>3, <3>2, <4>1, <5>1
      <4>2. CASE j > Len(buf) /\ buf'[j].id = echoed + (j - Len(buf))
        BY <1>t, <2>1, <2>3, <3>2, <4>2
      <4> QED
        BY <2>1, <4>1, <4>2
    <3> QED
      BY <2>1, <3>1, <3>2
  <2>7. \A i \in DOMAIN wire : \A j \in DOMAIN wire[i].pieces,
            k \in DOMAIN buf' : wire[i].pieces[j].id < buf'[k].id
    <3> SUFFICES ASSUME NEW i \in DOMAIN wire, NEW j \in DOMAIN wire[i].pieces,
                        NEW k \in DOMAIN buf'
                 PROVE  wire[i].pieces[j].id < buf'[k].id
      OBVIOUS
    <3>1. CASE k \in DOMAIN buf /\ buf'[k] = buf[k]
      BY <3>1 DEF OrderInv, OutputInOrder
    <3>2. CASE k > Len(buf) /\ buf'[k].id = echoed + (k - Len(buf))
      <4>1. wire[i].pieces[j].id <= echoed /\ wire[i].pieces[j].id \in Nat
        BY <1>t DEF OrderInv
      <4> QED
        BY <1>t, <2>1, <2>3, <3>2, <4>1
    <3> QED
      BY <2>1, <3>1, <3>2
  <2> QED
    BY <2>2, <2>4, <2>5, <2>6, <2>7 DEF OrderInv, OutputInOrder
<1>3. ASSUME NEW x, Sends(x) PROVE OrderInv'
  <2>1. /\ x \in Response /\ wire' = Append(wire, x) /\ echoed' = echoed
        /\ x.pieces \in {<<>>, buf} /\ buf' \in {buf, <<>>}
        /\ x.pieces = <<>> \/ buf' = <<>>
    BY <1>3 DEF Sends, Answers
  <2>2. \A i \in DOMAIN wire' :
            \/ i = Len(wire) + 1 /\ wire'[i] = x
            \/ i \in DOMAIN wire /\ wire'[i] = wire[i]
    BY <1>t, <2>1, AppendIndex
  <2>3. DOMAIN wire = 1 .. Len(wire) /\ Len(wire) \in Nat
    BY <1>t
  <2>4. \A j \in DOMAIN x.pieces :
            /\ x.pieces = buf /\ j \in DOMAIN buf
            /\ x.pieces[j].id <= echoed
    BY <1>e, <2>1 DEF OrderInv
  <2>5. \A j, k \in DOMAIN x.pieces :
            j < k => x.pieces[j].id < x.pieces[k].id
    BY <1>e, <2>1 DEF OrderInv
  <2>6. \A i \in DOMAIN wire : \A j \in DOMAIN wire[i].pieces,
            k \in DOMAIN x.pieces : wire[i].pieces[j].id < x.pieces[k].id
    BY <1>e, <2>1 DEF OrderInv, OutputInOrder
  <2>7. \A i \in DOMAIN wire' : \A j, k \in DOMAIN wire'[i].pieces :
            j < k => wire'[i].pieces[j].id < wire'[i].pieces[k].id
    BY <2>2, <2>5 DEF OrderInv, OutputInOrder
  <2>8. \A h, i \in DOMAIN wire' : h < i =>
            \A j \in DOMAIN wire'[h].pieces, k \in DOMAIN wire'[i].pieces :
                wire'[h].pieces[j].id < wire'[i].pieces[k].id
    <3> SUFFICES ASSUME NEW h \in DOMAIN wire', NEW i \in DOMAIN wire', h < i
                 PROVE  \A j \in DOMAIN wire'[h].pieces,
                           k \in DOMAIN wire'[i].pieces :
                            wire'[h].pieces[j].id < wire'[i].pieces[k].id
      OBVIOUS
    <3>1. h \in DOMAIN wire /\ wire'[h] = wire[h]
      BY <2>2, <2>3
    <3>2. CASE i = Len(wire) + 1 /\ wire'[i] = x
      BY <2>6, <3>1, <3>2
    <3>3. CASE i \in DOMAIN wire /\ wire'[i] = wire[i]
      BY <3>1, <3>3 DEF OrderInv, OutputInOrder
    <3> QED
      BY <2>2, <3>2, <3>3
  <2>9. \A i \in DOMAIN wire' : \A j \in DOMAIN wire'[i].pieces :
            /\ wire'[i].pieces[j].id <= echoed
            /\ \A k \in DOMAIN buf' : wire'[i].pieces[j].id < buf'[k].id
    <3> SUFFICES ASSUME NEW i \in DOMAIN wire', NEW j \in DOMAIN wire'[i].pieces
                 PROVE  /\ wire'[i].pieces[j].id <= echoed
                        /\ \A k \in DOMAIN buf' :
                              wire'[i].pieces[j].id < buf'[k].id
      OBVIOUS
    <3>1. CASE wire'[i] = x
      BY <1>e, <2>1, <2>4, <3>1
    <3>2. CASE i \in DOMAIN wire /\ wire'[i] = wire[i]
      BY <1>e, <2>1, <3>2 DEF OrderInv, OutputInOrder
    <3> QED
      BY <2>2, <3>1, <3>2
  <2>10. /\ \A j, k \in DOMAIN buf' : j < k => buf'[j].id < buf'[k].id
         /\ \A k \in DOMAIN buf' : buf'[k].id <= echoed
    BY <1>e, <2>1 DEF OrderInv
  <2> QED
    BY <2>1, <2>7, <2>8, <2>9, <2>10 DEF OrderInv, OutputInOrder
<1> QED
  BY <1>1, <1>2, <1>3, BufferStep

(***************************************************************************)
(* Output leaves in the order in which scripts echoed it and never twice,  *)
(* whatever they flush, clear or leave in the buffer.                      *)
(***************************************************************************)
THEOREM OutputOrdered == LbSpec => []OutputInOrder
<1>1. LbInit => OrderInv
  BY DEF LbInit, OrderInv, OutputInOrder
<1>2. OrderInv => OutputInOrder
  BY DEF OrderInv
<1> QED
  BY <1>1, <1>2, OrderInvNext, TypeInvInit, TypeInvNext, PTL DEF LbSpec

-----------------------------------------------------------------------------
(***************************************************************************)
(* The strengthening of FailureDiscards: a request that failed is neither  *)
(* waiting nor running its script, and has nothing in the buffer.          *)
(***************************************************************************)
DiscardInv ==
    InitLoaded =>
        \A i \in DOMAIN wire : wire[i].kind = "error" =>
            /\ wire[i].for \notin pending
            /\ wire[i].for = hm => pc \in {"finish", "idle"}
            /\ \A k \in DOMAIN buf : buf[k].by # wire[i].for
            /\ \A h \in i + 1 .. Len(wire) : \A j \in DOMAIN wire[h].pieces :
                  wire[h].pieces[j].by # wire[i].for

\* Where a step that sends nothing may move the handler.
LEMMA HandlerStep ==
    ASSUME TypeInv, [LbNext]_lbVars, Silent
    PROVE  /\ pending' \subseteq pending
           /\ \/ hm' = hm /\ (pc' = pc \/ pc # "finish" \/ pc' = "idle")
                 /\ (pc = "idle" => pc' = "idle")
              \/ hm' \in pending
<1> USE DEF TypeInv, LbTypeOK
<1>1. ASSUME NEW r \in Requests, Enter(r)
      PROVE  pending' \subseteq pending /\ hm' \in pending
  BY <1>1 DEF Enter
<1>2. CASE RunAcceptHook
  BY <1>2 DEF RunAcceptHook
<1>3. ASSUME NEW n \in 0..MaxArgs, BEcho(n)
      PROVE  pending' = pending /\ hm' = hm /\ pc' = pc
  BY <1>3 DEF BEcho, ScriptCall
<1>4. CASE BFlush
  BY <1>4 DEF BFlush, ScriptCall
<1>5. CASE BClear
  BY <1>5 DEF BClear, ScriptCall
<1>6. CASE ScriptReturns
  BY <1>6 DEF ScriptReturns
<1>7. CASE ScriptFails
  BY <1>7 DEF ScriptFails
<1>8. CASE RunFinishedHook
  BY <1>8 DEF RunFinishedHook
<1>9. CASE UNCHANGED lbVars
  BY <1>9 DEF lbVars
<1> QED
  BY <1>1, <1>2, <1>3, <1>4, <1>5, <1>6, <1>7, <1>8, <1>9 DEF LbNext

LEMMA DiscardInvNext ==
    TypeInv /\ OwedInv /\ DiscardInv /\ [LbNext]_lbVars => DiscardInv'
<1> SUFFICES ASSUME TypeInv, OwedInv, DiscardInv, [LbNext]_lbVars, InitLoaded,
                    NEW i \in DOMAIN wire', wire'[i].kind = "error"
             PROVE  /\ wire'[i].for \notin pending'
                    /\ wire'[i].for = hm' => pc' \in {"finish", "idle"}
                    /\ \A k \in DOMAIN buf' : buf'[k].by # wire'[i].for
                    /\ \A h \in i + 1 .. Len(wire') :
                          \A j \in DOMAIN wire'[h].pieces :
                              wire'[h].pieces[j].by # wire'[i].for
  BY DEF DiscardInv
<1>e. DOMAIN <<>> = {}
  OBVIOUS
<1>w. wire \in Seq(Response) /\ DOMAIN wire = 1 .. Len(wire) /\ Len(wire) \in Nat
  BY DEF TypeInv, LbTypeOK
<1>h. ASSUME i \in DOMAIN wire, wire[i].kind = "error"
      PROVE  /\ wire[i].for \notin pending
             /\ wire[i].for = hm => pc \in {"finish", "idle"}
             /\ \A k \in DOMAIN buf : buf[k].by # wire[i].for
             /\ \A h \in i + 1 .. Len(wire) : \A j \in DOMAIN wire[h].pieces :
                   wire[h].pieces[j].by # wire[i].for
  BY <1>h DEF DiscardInv
<1>1. CASE Silent
  <2>1. wire' = wire /\ buf' \in {buf, <<>>}
    BY <1>1 DEF Silent
  <2>2. /\ wire[i].for \notin pending
        /\ wire[i].for = hm => pc \in {"finish", "idle"}
        /\ \A k \in DOMAIN buf : buf[k].by # wire[i].for
        /\ \A h \in i + 1 .. Len(wire) : \A j \in DOMAIN wire[h].pieces :
              wire[h].pieces[j].by # wire[i].for
    BY <1>h, <2>1
  <2> QED
    BY <1>1, <1>e, <2>1, <2>2, HandlerStep
<1>2. ASSUME NEW n \in Nat, Echoes(n)
      PROVE  /\ wire'[i].for \notin pending'
             /\ wire'[i].for = hm' => pc' \in {"finish", "idle"}
             /\ \A k \in DOMAIN buf' : buf'[k].by # wire'[i].for
             /\ \A h \in i + 1 .. Len(wire') : \A j \in DOMAIN wire'[h].pieces :
                   wire'[h].pieces[j].by # wire'[i].for
  <2>1. /\ wire' = wire /\ pc = "script" /\ pc' = pc /\ hm' = hm
        /\ pending' = pending
    BY <1>2 DEF Echoes
  <2>2. \A k \in DOMAIN buf' : \/ k \in DOMAIN buf /\ buf'[k] = buf[k]
                               \/ buf'[k].by = hm
    BY <1>2, EchoIndex
  <2> QED
    BY <1>h, <2>1, <2>2
<1>3. ASSUME NEW x, Sends(x)
      PROVE  /\ wire'[i].for \notin pending'
             /\ wire'[i].for = hm' => pc' \in {"finish", "idle"}
             /\ \A k \in DOMAIN buf' : buf'[k].by # wire'[i].for
             /\ \A h \in i + 1 .. Len(wire') : \A j \in DOMAIN wire'[h].pieces :
                   wire'[h].pieces[j].by # wire'[i].for
  <2>1. /\ x \in Response /\ wire' = Append(wire, x) /\ hm' = hm
        /\ x.for = hm /\ pending' = pending /\ pc \in {"script", "finish"}
        /\ x.pieces \in {<<>>, buf} /\ buf' \in {buf, <<>>}
        /\ x.kind = "error" => pc' = "finish" /\ buf' = <<>>
        /\ x.kind # "error" => pc' = pc \/ pc' = "idle"
    BY <1>3 DEF Sends, Answers
  <2>2. \A h \in DOMAIN wire' :
            \/ h = Len(wire) + 1 /\ wire'[h] = x
            \/ h \in DOMAIN wire /\ wire'[h] = wire[h]
    BY <1>w, <2>1, AppendIndex
  <2>3. Len(wire') = Len(wire) + 1 /\ DOMAIN wire' = 1 .. Len(wire) + 1
    BY <1>w, <2>1
  <2>4. CASE i = Len(wire) + 1 /\ wire'[i] = x
    <3>1. i + 1 .. Len(wire') = {}
      BY <1>w, <2>3, <2>4
    <3>2. hm \notin pending
      BY <2>1 DEF OwedInv
    <3> QED
      BY <1>e, <2>1, <2>4, <3>1, <3>2
  <2>5. CASE i \in DOMAIN wire /\ wire'[i] = wire[i]
    <3>1. /\ wire[i].for \notin pending
          /\ wire[i].for = hm => pc \in {"finish", "idle"}
          /\ \A k \in DOMAIN buf : buf[k].by # wire[i].for
          /\ \A h \in i + 1 .. Len(wire) : \A j \in DOMAIN wire[h].pieces :
                wire[h].pieces[j].by # wire[i].for
      BY <1>h, <2>5
    <3>2. \A j \in DOMAIN x.pieces : x.pieces[j].by # wire[i].for
      BY <1>e, <2>1, <3>1
    <3>3. ASSUME NEW h \in i + 1 .. Len(wire'), NEW j \in DOMAIN wire'[h].pieces
          PROVE  wire'[h].pieces[j].by # wire'[i].for
      <4>1. h \in DOMAIN wire'
        BY <1>w, <2>3, <2>5
      <4>2. CASE wire'[h] = x
        BY <2>5, <3>2, <4>2
      <4>3. CASE h \in DOMAIN wire /\ wire'[h] = wire[h]
        <5>1. h \in i + 1 .. Len(wire)
          BY <1>w, <4>3
        <5> QED
          BY <2>5, <3>1, <4>3, <5>1
      <4> QED
        BY <2>2, <4>1, <4>2, <4>3
    <3> QED
      BY <1>e, <2>1, <2>5, <3>1, <3>3
  <2> QED
    BY <2>2, <2>4, <2>5
<1> QED
  BY <1>1, <1>2, <1>3, BufferStep

(***************************************************************************)
(* What a script had echoed and not flushed when it failed is never sent,  *)
(* neither by its own hook nor by a later request.                         *)
(***************************************************************************)
THEOREM FailuresDiscard == LbSpec => []FailureDiscards
<1>1. LbInit => OwedInv /\ DiscardInv
  BY DEF LbInit, OwedInv, Foreign, DiscardInv
<1>2. DiscardInv => FailureDiscards
  BY DEF DiscardInv, FailureDiscards
<1> QED
  BY <1>1, <1>2, OwedInvNext, DiscardInvNext, TypeInvInit, TypeInvNext, PTL
  DEF LbSpec

-----------------------------------------------------------------------------
\* A request that has been answered stays so.
Answered(r) == \E i \in DOMAIN wire : wire[i].for = r

LEMMA AnsweredStays ==
    ASSUME TypeInv, [LbNext]_lbVars, NEW r, Answered(r)
    PROVE  Answered(r)'
<1>1. CASE wire' = wire
  BY <1>1 DEF Answered
<1>2. ASSUME NEW x, Answers(x) PROVE Answered(r)'
  <2>1. wire \in Seq(Response) /\ x \in Response /\ wire' = Append(wire, x)
    BY <1>2 DEF TypeInv, LbTypeOK, Answers
  <2>2. PICK i \in DOMAIN wire : wire[i].for = r
    BY DEF Answered
  <2>3. i \in DOMAIN wire' /\ wire'[i] = wire[i]
    BY <2>1
  <2> QED
    BY <2>2, <2>3 DEF Answered
<1> QED
  BY <1>1, <1>2, WireStep

\* What a flush sends answers the current request.
LEMMA FlushIsAnswer ==
    ASSUME TypeInv, FlushDefault \/ FlushTyped
    PROVE  \E i \in DOMAIN wire' : wire'[i].for = hm
<1>1. CASE FlushDefault
  <2>1. wire' = Append(wire, HeadOnly("flush")) /\ wire \in Seq(Response)
    BY <1>1 DEF FlushDefault, TypeInv, LbTypeOK
  <2>2. Len(wire) + 1 \in DOMAIN wire'
        /\ wire'[Len(wire) + 1] = HeadOnly("flush")
    BY <2>1
  <2> QED
    BY <2>2 DEF HeadOnly
<1>2. CASE FlushTyped
  <2>1. wire' = Append(wire, HeadAndBody("flush_ct")) /\ wire \in Seq(Response)
    BY <1>2 DEF FlushTyped, TypeInv, LbTypeOK
  <2>2. Len(wire) + 1 \in DOMAIN wire'
        /\ wire'[Len(wire) + 1] = HeadAndBody("flush_ct")
    BY <2>1
  <2> QED
    BY <2>2 DEF HeadAndBody
<1> QED
  BY <1>1, <1>2

LEMMA HookAnswersNext ==
    TypeInv /\ HookAnswers /\ [LbNext]_lbVars => HookAnswers'
<1> SUFFICES ASSUME TypeInv, HookAnswers, [LbNext]_lbVars,
                    finishedHook \in {"flush", "flush_ct"},
                    NEW r \in Requests \ pending'
             PROVE  (r = hm' /\ pc' # "idle") \/ Answered(r)'
  BY HooksFixed DEF HookAnswers, Answered, hooks
<1>a. ASSUME r \notin pending
      PROVE  (r = hm /\ pc # "idle") \/ Answered(r)'
  BY <1>a, AnsweredStays DEF HookAnswers, Answered
<1>1. ASSUME NEW q \in Requests, Enter(q)
      PROVE  (r = hm' /\ pc' # "idle") \/ Answered(r)'
  BY <1>1, <1>a DEF Enter
<1>2. CASE RunAcceptHook
  BY <1>2, <1>a DEF RunAcceptHook
<1>3. ASSUME NEW n \in 0..MaxArgs, BEcho(n)
      PROVE  (r = hm' /\ pc' # "idle") \/ Answered(r)'
  BY <1>3, <1>a DEF BEcho, ScriptCall
<1>4. CASE BFlush
  BY <1>4, <1>a DEF BFlush, ScriptCall
<1>5. CASE BClear
  BY <1>5, <1>a DEF BClear, ScriptCall
<1>6. CASE ScriptReturns
  BY <1>6, <1>a DEF ScriptReturns
<1>7. CASE ScriptFails
  BY <1>7, <1>a DEF ScriptFails
<1>8. CASE RunFinishedHook
  <2>1. (FlushDefault \/ FlushTyped) /\ pending' = pending
    BY <1>8 DEF RunFinishedHook
  <2>2. \E i \in DOMAIN wire' : wire'[i].for = hm
    BY <2>1, FlushIsAnswer
  <2>3. CASE r = hm
    BY <2>2, <2>3 DEF Answered
  <2> QED
    BY <1>a, <2>1, <2>3
<1>9. CASE UNCHANGED lbVars
  BY <1>9, <1>a DEF lbVars
<1> QED
  BY <1>1, <1>2, <1>3, <1>4, <1>5, <1>6, <1>7, <1>8, <1>9 DEF LbNext

(***************************************************************************)
(* With a __Finished__ hook that flushes, every request that was handled   *)
(* has been answered, whatever its script did.                             *)
(***************************************************************************)
THEOREM HookAlwaysAnswers == LbSpec => []HookAnswers
<1>1. LbInit => HookAnswers
  BY DEF LbInit, HookAnswers
<1> QED
  BY <1>1, HookAnswersNext, TypeInvInit, TypeInvNext, PTL DEF LbSpec
=============================================================================
