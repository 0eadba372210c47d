------------------------ MODULE ShowcaseForce_proofs ------------------------
(***************************************************************************)
(* Proofs about ShowcaseForce for every set of requests, number of attempts*)
(* and size of the pool.                                                   *)
(***************************************************************************)
EXTENDS ShowcaseForce, SequenceTheorems, TLAPS

Outcomes == {"2xx", "failed", "blocked"}

Rows == [status : {"absent", "pending", "succeeded", "dead_lettered"},
         trail  : Seq(Outcomes)]

ForceTypeOK ==
    /\ row \in [Forces -> Rows]
    /\ copy \in [Forces -> Rows]
    /\ lock \in [Forces -> {"nobody", "worker", "request"}]
    /\ fpc \in [Forces -> {"start", "checked", "emitted", "locking", "forward", "posted", "end"}]

(* The trail of c continues that of r.                                     *)
Extends(c, r) ==
    /\ Len(r.trail) <= Len(c.trail)
    /\ r.trail = SubSeq(c.trail, 1, Len(r.trail))

(* A delivery's row is written only under its lock, by whoever has loaded  *)
(* it since the lock was taken; before it is emitted it is nobody's.       *)
IInv ==
    /\ ForceTypeOK
    /\ \A f \in Forces :
          /\ f \in posted => lock[f] # "nobody"
          /\ fpc[f] = "forward" => lock[f] = "request"
          /\ fpc[f] \in {"start", "checked"} => row[f] = Absent /\ lock[f] = "nobody"
          /\ lock[f] # "nobody" => Extends(copy[f], row[f])

-----------------------------------------------------------------------------
LEMMA ExtendsItself ==
    ASSUME NEW r \in Rows
    PROVE  Extends(r, r)
<1>1. r.trail \in Seq(Outcomes)
  BY DEF Rows
<1>2. SubSeq(r.trail, 1, Len(r.trail)) = r.trail
  BY <1>1
<1>3. QED
  BY <1>1, <1>2 DEF Extends

LEMMA AttemptedExtends ==
    ASSUME NEW c \in Rows, NEW r \in Rows, NEW o \in Outcomes, Extends(c, r)
    PROVE  Attempted(c, o) \in Rows /\ Extends(Attempted(c, o), r)
<1> DEFINE t == Append(c.trail, o)
<1>1. /\ c.trail \in Seq(Outcomes) /\ t \in Seq(Outcomes)
      /\ r.trail \in Seq(Outcomes)
  BY DEF Rows
<1>2. Len(t) = Len(c.trail) + 1 /\ \A i \in 1..Len(c.trail) : t[i] = c.trail[i]
  BY <1>1
<1>3. Len(r.trail) \in Nat /\ Len(r.trail) <= Len(c.trail) /\ Len(c.trail) \in Nat
  BY <1>1 DEF Extends
<1>4. SubSeq(t, 1, Len(r.trail)) = SubSeq(c.trail, 1, Len(r.trail))
  BY <1>1, <1>2, <1>3
<1>5. Attempted(c, o).trail = t /\ Attempted(c, o) \in Rows
  BY <1>1 DEF Attempted, Rows
<1>6. QED
  BY <1>2, <1>3, <1>4, <1>5 DEF Extends

LEMMA EmittedExtends == Absent \in Rows /\ Emitted \in Rows /\ Extends(Emitted, Absent)
<1>1. Absent \in Rows /\ Emitted \in Rows
  BY DEF Absent, Emitted, Rows
<1>2. Emitted.trail = Absent.trail
  BY DEF Absent, Emitted
<1>3. QED
  BY <1>1, <1>2, ExtendsItself DEF Extends

LEMMA InitIInv == ForceInit => IInv
  BY EmittedExtends DEF ForceInit, IInv, ForceTypeOK

-----------------------------------------------------------------------------
(* Steps of a request that write neither rows nor locks.                   *)
Moves(f) ==
    /\ UNCHANGED <<row, copy, lock, posted>>
    /\ \E place \in {"checked", "locking", "end"} : At(f, place)
    /\ fpc[f] = "start" \/ fpc'[f] # "checked"

LEMMA MovesKeep ==
    ASSUME IInv, NEW f \in Forces, Moves(f)
    PROVE  IInv'
  BY DEF IInv, ForceTypeOK, Moves, At

(* Whoever takes the lock loads the row, and may add an attempt to it.     *)
LEMMA LockKeeps ==
    ASSUME IInv, NEW d \in Forces, NEW who \in {"worker", "request"}, lock[d] = "nobody",
           fpc[d] \notin {"start", "checked"}, NEW c \in Rows, Extends(c, row[d]),
           lock' = [lock EXCEPT ![d] = who], copy' = [copy EXCEPT ![d] = c], row' = row,
           posted' \subseteq posted \cup {d},
           IF who = "request" THEN At(d, "forward") ELSE fpc' = fpc
    PROVE  IInv'
<1>1. ForceTypeOK'
  BY DEF IInv, ForceTypeOK, At
<1>2. QED
  BY <1>1 DEF IInv, ForceTypeOK, At

(* An attempt continues the trail of the copy.                             *)
LEMMA RecordedKeeps ==
    ASSUME IInv, NEW d \in Forces, lock[d] # "nobody", NEW o \in Outcomes,
           copy' = [copy EXCEPT ![d] = Attempted(copy[d], o)],
           posted' = posted \ {d}, UNCHANGED <<row, lock, fpc>>
    PROVE  IInv'
<1>1. Attempted(copy[d], o) \in Rows /\ Extends(Attempted(copy[d], o), row[d])
  BY AttemptedExtends DEF IInv, ForceTypeOK
<1>2. QED
  BY <1>1 DEF IInv, ForceTypeOK

(* The lock is given back: the row is what it was or what its copy is.     *)
LEMMA UnlockKeeps ==
    ASSUME IInv, NEW d \in Forces, lock[d] # "nobody", NEW r \in {row[d], copy[d]},
           row' = [row EXCEPT ![d] = r], copy' = [copy EXCEPT ![d] = Absent],
           lock' = [lock EXCEPT ![d] = "nobody"], posted' = posted \ {d},
           IF lock[d] = "request" THEN At(d, "posted") ELSE fpc' = fpc
    PROVE  IInv'
<1>1. ForceTypeOK'
  BY EmittedExtends DEF IInv, ForceTypeOK, At
<1>2. QED
  BY <1>1 DEF IInv, ForceTypeOK, At

LEMMA NextIInv == IInv /\ [ForceNext]_forceVars => IInv'
<1> SUFFICES ASSUME IInv, [ForceNext]_forceVars PROVE IInv'
  OBVIOUS
<1>1. ASSUME NEW f \in Forces,
             CheckHealth(f) \/ AskLock(f) \/ LockTimesOut(f) \/ PoolTimesOut(f) \/ Report(f)
      PROVE  IInv'
  <2>1. Moves(f)
    BY <1>1 DEF CheckHealth, AskLock, LockTimesOut, PoolTimesOut, Report, Moves, EndWith, At,
                IInv, ForceTypeOK
  <2>2. QED
    BY <2>1, MovesKeep
<1>2. ASSUME NEW f \in Forces, Emit(f) PROVE IInv'
  BY <1>2, EmittedExtends DEF Emit, At, IInv, ForceTypeOK
<1>3. ASSUME NEW f \in Forces, LockRow(f) PROVE IInv'
  <2>1. row[f] \in Rows /\ Extends(row[f], row[f])
    BY ExtendsItself DEF IInv, ForceTypeOK
  <2>2. QED
    BY <1>3, <2>1, LockKeeps DEF LockRow
<1>4. ASSUME NEW f \in Forces, ForcePost(f) PROVE IInv'
  BY <1>4 DEF ForcePost, IInv, ForceTypeOK
<1>5. ASSUME NEW f \in Forces, ForceCommit(f) PROVE IInv'
  <2>1. lock[f] = "request" /\ posted' = posted \ {f}
    BY <1>5 DEF ForceCommit, IInv
  <2>2. QED
    BY <1>5, <2>1, UnlockKeeps DEF ForceCommit
<1>6. ASSUME NEW d \in Forces, CallStep(d) PROVE IInv'
  <2>1. PICK o \in Outcomes : Recorded(d, o)
    BY <1>6 DEF CallStep, Receive, PostTimesOut, Verdict, Outcomes
  <2>2. lock[d] # "nobody"
    BY <1>6 DEF CallStep, Receive, PostTimesOut, IInv
  <2>3. QED
    BY <2>1, <2>2, RecordedKeeps DEF Recorded
<1>7. ASSUME NEW d \in Forces, WorkerClaim(d) \/ WorkerBlock(d) PROVE IInv'
  <2>1. row[d] # Absent
    BY <1>7 DEF WorkerClaim, WorkerBlock, Absent
  <2>2. row[d] \in Rows /\ Extends(row[d], row[d])
    BY ExtendsItself DEF IInv, ForceTypeOK
  <2>3. Attempted(row[d], "blocked") \in Rows /\ Extends(Attempted(row[d], "blocked"), row[d])
    BY <2>2, AttemptedExtends DEF Outcomes
  <2>4. CASE WorkerClaim(d)
    BY <2>1, <2>2, <2>4, LockKeeps DEF WorkerClaim, IInv
  <2>5. CASE WorkerBlock(d)
    BY <2>1, <2>3, <2>5, LockKeeps DEF WorkerBlock, IInv
  <2>6. QED
    BY <1>7, <2>4, <2>5
<1>8. ASSUME NEW d \in Forces, WorkerCommit(d) PROVE IInv'
  <2>1. lock[d] = "worker" /\ posted' = posted \ {d}
    BY <1>8 DEF WorkerCommit
  <2>2. QED
    BY <1>8, <2>1, UnlockKeeps DEF WorkerCommit
<1>9. ASSUME NEW d \in Forces, WorkerCrash(d) PROVE IInv'
  <2>1. lock[d] = "worker" /\ row' = [row EXCEPT ![d] = row[d]]
    BY <1>9 DEF WorkerCrash, IInv, ForceTypeOK
  <2>2. QED
    BY <1>9, <2>1, UnlockKeeps DEF WorkerCrash
<1>10. ASSUME NEW d \in Forces, ForceRedrive(d) PROVE IInv'
  <2>1. row[d] # Absent /\ lock[d] = "nobody"
    BY <1>10 DEF ForceRedrive, Absent
  <2>2. QED
    BY <1>10, <2>1 DEF ForceRedrive, IInv, ForceTypeOK, Rows
<1>11. CASE SetHealth \/ UNCHANGED forceVars
  BY <1>11 DEF SetHealth, forceVars, IInv, ForceTypeOK
<1>12. ASSUME NEW f \in Forces, ForceBlock(f) PROVE IInv'
  <2>1. lock[f] # "nobody" /\ posted' = posted \ {f} /\ "blocked" \in Outcomes
    BY <1>12 DEF ForceBlock, IInv, Outcomes
  <2>2. QED
    BY <1>12, <2>1, RecordedKeeps DEF ForceBlock
<1>13. QED
  BY <1>1, <1>2, <1>3, <1>4, <1>5, <1>6, <1>7, <1>8, <1>9, <1>10, <1>11, <1>12
     DEF ForceNext, ForceStep

(* A row is written by its emission, a redrive, or from the lock's copy.   *)
LEMMA RowsExtend ==
    ASSUME IInv, ForceNext, NEW d \in Forces
    PROVE  Extends(row'[d], row[d])
<1> USE DEF IInv, ForceTypeOK
<1>1. Extends(row[d], row[d])
  BY ExtendsItself
<1>2. ASSUME NEW f \in Forces, Emit(f) PROVE Extends(row'[d], row[d])
  BY <1>1, <1>2, EmittedExtends DEF Emit
<1>3. ASSUME NEW f \in Forces, ForceCommit(f) \/ WorkerCommit(f) PROVE Extends(row'[d], row[d])
  BY <1>1, <1>3 DEF ForceCommit, WorkerCommit
<1>4. ASSUME NEW f \in Forces, ForceRedrive(f) PROVE Extends(row'[d], row[d])
  <2>1. row'[d].trail = row[d].trail
    BY <1>4 DEF ForceRedrive, Rows
  <2>2. QED
    BY <1>1, <2>1 DEF Extends
<1>5. \/ UNCHANGED row
      \/ \E f \in Forces : Emit(f) \/ ForceCommit(f) \/ WorkerCommit(f) \/ ForceRedrive(f)
  BY DEF ForceNext, ForceStep, CallStep, SetHealth, CheckHealth, AskLock, LockRow,
         LockTimesOut, PoolTimesOut, ForcePost, ForceBlock, Report, Receive, PostTimesOut,
         Recorded, WorkerClaim, WorkerBlock, WorkerCrash
<1>6. QED
  BY <1>1, <1>2, <1>3, <1>4, <1>5

(* The fast path and the workers never overwrite each other's attempts     *)
(* (_fast_forward_to_dead_letter loads the row under its lock).            *)
THEOREM ForcedTrailKept == ForceSpec => TrailKept
<1> DEFINE Step == \A d \in Forces :
                      /\ Len(row[d].trail) <= Len(row'[d].trail)
                      /\ row[d].trail = SubSeq(row'[d].trail, 1, Len(row[d].trail))
<1>1. ForceInit => IInv
  BY InitIInv
<1>2. IInv /\ [ForceNext]_forceVars => IInv'
  BY NextIInv
<1>3. IInv /\ [ForceNext]_forceVars => [Step]_row
  BY RowsExtend DEF Extends, forceVars
<1>4. QED
  BY <1>1, <1>2, <1>3, PTL DEF ForceSpec, TrailKept

-----------------------------------------------------------------------------
(* What a request leaves behind.                                           *)

(* max_delivery_attempts were made and one from then on failed, or one has *)
(* found the URL blocked.                                                  *)
Failed(r, url) == \E n \in 1 .. Len(r.trail) :
                \/ r.trail[n] = "failed" /\ n >= ForceAttempts
                \/ r.trail[n] = "blocked" /\ url

(* A request has made its rounds itself, each an attempt of the copy, and  *)
(* the last one settles it.                                                *)
Counted(f) ==
    /\ rounds[f] \in Nat
    /\ fpc[f] \in {"start", "checked", "emitted", "locking"} => rounds[f] = 0
    /\ fpc[f] = "forward" =>
          /\ f \in posted => rounds[f] <= Len(copy[f].trail) + 1
          /\ f \notin posted => rounds[f] <= Len(copy[f].trail)
          /\ f \notin posted /\ rounds[f] >= ForceAttempts =>
                copy[f].status \in {"succeeded", "dead_lettered"}

Explained(f) ==
    /\ row[f].status = "dead_lettered" => Failed(row[f], blocked)
    /\ copy[f].status = "dead_lettered" => Failed(copy[f], blocked)
    /\ answer[f] = "dead" => Failed(row[f], blocked)

Answers ==
    /\ rounds \in [Forces -> Nat]
    /\ answer \in [Forces -> {"none", "409", "500", "dead"}]

SettleIInv == IInv /\ Answers /\ \A f \in Forces : Counted(f) /\ Explained(f)

-----------------------------------------------------------------------------
LEMMA FailedExtends ==
    ASSUME NEW r \in Rows, NEW c \in Rows, NEW url, Extends(c, r), Failed(r, url)
    PROVE  Failed(c, url)
<1>1. PICK n \in 1 .. Len(r.trail) : \/ r.trail[n] = "failed" /\ n >= ForceAttempts
                                     \/ r.trail[n] = "blocked" /\ url
  BY DEF Failed
<1>2. /\ r.trail \in Seq(Outcomes) /\ c.trail \in Seq(Outcomes)
      /\ Len(r.trail) \in Nat /\ Len(c.trail) \in Nat /\ Len(r.trail) <= Len(c.trail)
      /\ r.trail = SubSeq(c.trail, 1, Len(r.trail))
  BY DEF Rows, Extends
<1>3. n \in 1 .. Len(c.trail)
  BY <1>2
<1>4. SubSeq(c.trail, 1, Len(r.trail))[n] = c.trail[n]
  BY <1>2, <1>3
<1>5. c.trail[n] = r.trail[n]
  BY <1>1, <1>2, <1>4
<1>6. QED
  BY <1>1, <1>3, <1>5 DEF Failed

LEMMA AttemptedSettles ==
    ASSUME NEW c \in Rows, NEW o \in Outcomes, NEW url, o = "blocked" => url
    PROVE  /\ Len(Attempted(c, o).trail) = Len(c.trail) + 1
           /\ Len(c.trail) + 1 >= ForceAttempts =>
                 Attempted(c, o).status \in {"succeeded", "dead_lettered"}
           /\ Attempted(c, o).status = "dead_lettered" => Failed(Attempted(c, o), url)
<1>1. c.trail \in Seq(Outcomes) /\ Len(c.trail) \in Nat
  BY DEF Rows
<1>2. PICK t \in Seq(Outcomes) : t = Append(c.trail, o)
  <2>1. Append(c.trail, o) \in Seq(Outcomes)
    BY <1>1
  <2>2. QED
    BY <2>1
<1>3. Len(t) = Len(c.trail) + 1 /\ t[Len(t)] = o
  BY <1>1, <1>2
<1>4. Attempted(c, o).trail = t
  BY <1>2 DEF Attempted
<1>5. Attempted(c, o).status = CASE o = "2xx" -> "succeeded"
          [] o = "blocked" -> "dead_lettered"
          [] o = "failed" /\ Len(c.trail) + 1 >= ForceAttempts -> "dead_lettered"
          [] OTHER -> "pending"
  BY DEF Attempted
<1>6. Len(c.trail) + 1 >= ForceAttempts =>
         Attempted(c, o).status \in {"succeeded", "dead_lettered"}
  BY <1>5 DEF Outcomes
<1>7. ASSUME Attempted(c, o).status = "dead_lettered" PROVE Failed(Attempted(c, o), url)
  <2>1. \/ o = "failed" /\ Len(c.trail) + 1 >= ForceAttempts
        \/ o = "blocked" /\ url
    BY <1>5, <1>7
  <2>2. Len(t) \in 1 .. Len(t) /\ Len(t) = Len(c.trail) + 1
    BY <1>1, <1>3
  <2>3. QED
    BY <1>3, <1>4, <2>1, <2>2 DEF Failed
<1>8. QED
  BY <1>3, <1>4, <1>6, <1>7

LEMMA SettleInit == ForceInit => SettleIInv
<1> SUFFICES ASSUME ForceInit PROVE SettleIInv
  OBVIOUS
<1>1. IInv
  BY InitIInv
<1>2. QED
  BY <1>1 DEF ForceInit, SettleIInv, Answers, Counted, Explained, Absent

(* The receiver's URL stays what it is.                                    *)
LEMMA UrlStays == [ForceNext]_forceVars => blocked' = blocked
  BY DEF ForceNext, ForceStep, CallStep, SetHealth, CheckHealth, Emit, AskLock, LockRow,
         LockTimesOut, PoolTimesOut, ForcePost, ForceBlock, ForceCommit, Report, Receive,
         PostTimesOut, Recorded, WorkerClaim, WorkerBlock, WorkerCommit, WorkerCrash,
         ForceRedrive, forceVars

(* Rows only grow, so what a dead letter or its answer stands on remains.  *)
LEMMA ExplainedStays ==
    ASSUME SettleIInv, ForceNext, NEW f \in Forces, IInv',
           row'[f].status = "dead_lettered" => Failed(row'[f], blocked),
           copy'[f].status = "dead_lettered" => Failed(copy'[f], blocked),
           answer'[f] = "dead" => answer[f] = "dead" \/ row'[f].status = "dead_lettered"
    PROVE  Explained(f)'
<1>1. Extends(row'[f], row[f])
  BY RowsExtend DEF SettleIInv
<1>2. row[f] \in Rows /\ row'[f] \in Rows
  BY DEF SettleIInv, IInv, ForceTypeOK
<1>3. answer[f] = "dead" => Failed(row'[f], blocked)
  BY <1>1, <1>2, FailedExtends DEF SettleIInv, Explained
<1>4. QED
  BY <1>3, UrlStays DEF Explained

LEMMA SettleStep == SettleIInv /\ [ForceNext]_forceVars => SettleIInv'
<1> SUFFICES ASSUME SettleIInv, [ForceNext]_forceVars PROVE SettleIInv'
  OBVIOUS
<1> USE ForceAssumption DEF SettleIInv, IInv, ForceTypeOK, Answers
<1>1. IInv' /\ blocked' = blocked
  BY NextIInv, UrlStays
<1> DEFINE Ok(f) == /\ Counted(f)
                    /\ row[f].status = "dead_lettered" => Failed(row[f], blocked)
                    /\ copy[f].status = "dead_lettered" => Failed(copy[f], blocked)
           Told(f) == answer'[f] = "dead" => answer[f] = "dead" \/ row'[f].status = "dead_lettered"
<1>2. \A f \in Forces : Ok(f)
  BY DEF Explained
<1> HIDE DEF Ok
(* A step on g leaves what is said of the others.                          *)
<1>3. ASSUME NEW g \in Forces,
             \A f \in Forces \ {g} :
                /\ row'[f] = row[f] /\ copy'[f] = copy[f] /\ fpc'[f] = fpc[f]
                /\ rounds'[f] = rounds[f]
                /\ (f \in posted') <=> (f \in posted)
      PROVE  \A f \in Forces \ {g} : Ok(f)'
  <2> TAKE f \in Forces \ {g}
  <2>1. /\ row'[f] = row[f] /\ copy'[f] = copy[f] /\ fpc'[f] = fpc[f]
        /\ rounds'[f] = rounds[f] /\ ((f \in posted') <=> (f \in posted)) /\ Ok(f)
    BY <1>2, <1>3
  <2>2. Counted(f)'
    BY <2>1 DEF Ok, Counted
  <2>3. QED
    BY <1>1, <2>1, <2>2 DEF Ok
<1>4. ASSUME NEW g \in Forces,
             CheckHealth(g) \/ Emit(g) \/ AskLock(g) \/ LockTimesOut(g) \/ PoolTimesOut(g)
      PROVE  /\ Answers' /\ \A f \in Forces : Ok(f)' /\ Told(f)
  <2>1. /\ UNCHANGED <<copy, lock, posted, rounds>>
        /\ \E place \in {"checked", "emitted", "locking", "end"} :
              fpc' = [fpc EXCEPT ![g] = place]
        /\ answer' = answer \/ \E a \in {"409", "500", "none"} : answer' = [answer EXCEPT ![g] = a]
        /\ row' = row \/ row' = [row EXCEPT ![g] = Emitted]
        /\ fpc'[g] # "end" => fpc[g] \in {"start", "checked", "emitted"}
    BY <1>4 DEF CheckHealth, Emit, AskLock, LockTimesOut, PoolTimesOut, EndWith, At
  <2>2. \A f \in Forces \ {g} : Ok(f)'
    BY <1>3, <2>1
  <2>3. Ok(g)'
    <3>1. Counted(g)'
      BY <1>2, <2>1 DEF Ok, Counted
    <3>2. /\ row'[g] = row[g] \/ row'[g].status = "pending"
          /\ copy'[g] = copy[g]
      BY <2>1 DEF Emitted
    <3>3. row'[g].status = "dead_lettered" => Failed(row'[g], blocked)
      BY <1>1, <1>2, <3>2 DEF Ok
    <3>4. copy'[g].status = "dead_lettered" => Failed(copy'[g], blocked)
      BY <1>1, <1>2, <3>2 DEF Ok
    <3>5. QED
      BY <1>1, <3>1, <3>3, <3>4 DEF Ok
  <2>4. Answers' /\ \A f \in Forces : Told(f)
    BY <2>1
  <2>5. QED
    BY <2>2, <2>3, <2>4
<1>5. ASSUME NEW g \in Forces, LockRow(g) \/ WorkerClaim(g)
      PROVE  /\ Answers' /\ \A f \in Forces : Ok(f)' /\ Told(f)
  <2>1. /\ copy' = [copy EXCEPT ![g] = row[g]] /\ UNCHANGED <<row, rounds, answer>>
        /\ lock[g] = "nobody"
        /\ \/ fpc' = fpc /\ posted' = posted \cup {g}
           \/ fpc[g] = "locking" /\ fpc' = [fpc EXCEPT ![g] = "forward"] /\ posted' = posted
    BY <1>5 DEF LockRow, WorkerClaim, At
  <2>2. \A f \in Forces \ {g} : Ok(f)'
    BY <1>3, <2>1
  <2>3. fpc[g] # "forward" /\ g \notin posted
    BY <2>1
  <2>4. copy'[g] = row[g] /\ row[g] \in Rows /\ Len(row[g].trail) \in Nat
    BY <2>1 DEF Rows
  <2>5. Counted(g)'
    BY <1>2, <2>1, <2>3, <2>4 DEF Ok, Counted
  <2>6. row'[g].status = "dead_lettered" => Failed(row'[g], blocked)
    BY <1>1, <1>2, <2>1 DEF Ok
  <2>7. Ok(g)'
    BY <1>1, <2>1, <2>4, <2>5, <2>6 DEF Ok
  <2>8. QED
    BY <2>1, <2>2, <2>7
<1>6. ASSUME NEW g \in Forces, ForcePost(g)
      PROVE  /\ Answers' /\ \A f \in Forces : Ok(f)' /\ Told(f)
  <2>1. /\ fpc[g] = "forward" /\ g \notin posted /\ posted' = posted \cup {g}
        /\ rounds' = [rounds EXCEPT ![g] = rounds[g] + 1]
        /\ UNCHANGED <<row, copy, lock, fpc, answer>>
    BY <1>6 DEF ForcePost
  <2>2. \A f \in Forces \ {g} : Ok(f)'
    BY <1>3, <2>1
  <2>3. copy[g] \in Rows /\ Len(copy[g].trail) \in Nat /\ rounds'[g] = rounds[g] + 1
    BY <2>1 DEF Rows
  <2>4. Counted(g)'
    BY <1>2, <2>1, <2>3 DEF Ok, Counted
  <2>5. Ok(g)'
    BY <1>1, <1>2, <2>1, <2>4 DEF Ok
  <2>6. Answers'
    BY <2>1, <2>3
  <2>7. QED
    BY <2>1, <2>2, <2>5, <2>6
<1>7. ASSUME NEW g \in Forces, CallStep(g)
      PROVE  /\ Answers' /\ \A f \in Forces : Ok(f)' /\ Told(f)
  <2>1. PICK o \in Outcomes : Recorded(g, o) /\ g \in posted /\ o # "blocked"
    BY <1>7 DEF CallStep, Receive, PostTimesOut, Verdict, Outcomes
  <2>2. /\ copy' = [copy EXCEPT ![g] = Attempted(copy[g], o)] /\ posted' = posted \ {g}
        /\ UNCHANGED <<row, lock, fpc, rounds, answer>>
    BY <2>1 DEF Recorded
  <2>3. \A f \in Forces \ {g} : Ok(f)'
    BY <1>3, <2>2
  <2>4. copy'[g] = Attempted(copy[g], o) /\ copy[g] \in Rows /\ Len(copy[g].trail) \in Nat
    BY <2>2 DEF Rows
  <2>5. /\ Len(copy'[g].trail) = Len(copy[g].trail) + 1
        /\ Len(copy[g].trail) + 1 >= ForceAttempts =>
              copy'[g].status \in {"succeeded", "dead_lettered"}
        /\ copy'[g].status = "dead_lettered" => Failed(copy'[g], blocked)
    <3>1. PICK c \in Rows : c = copy[g]
      BY <2>4
    <3>2. /\ Len(Attempted(c, o).trail) = Len(c.trail) + 1
          /\ Len(c.trail) + 1 >= ForceAttempts =>
                Attempted(c, o).status \in {"succeeded", "dead_lettered"}
          /\ Attempted(c, o).status = "dead_lettered" => Failed(Attempted(c, o), blocked)
      BY <2>1, AttemptedSettles
    <3>3. QED
      BY <2>4, <3>1, <3>2
  <2>6. Counted(g)'
    BY <1>2, <2>1, <2>2, <2>4, <2>5 DEF Ok, Counted
  <2>7. Ok(g)'
    BY <1>1, <1>2, <2>2, <2>5, <2>6 DEF Ok
  <2>8. QED
    BY <2>2, <2>3, <2>7
<1>7a. ASSUME NEW g \in Forces, ForceBlock(g) \/ WorkerBlock(g)
       PROVE  /\ Answers' /\ \A f \in Forces : Ok(f)' /\ Told(f)
  <2>1. PICK c \in {copy[g], row[g]} :
           /\ copy' = [copy EXCEPT ![g] = Attempted(c, "blocked")]
           /\ UNCHANGED <<row, posted, fpc, answer>>
           /\ blocked
           /\ \/ /\ rounds' = [rounds EXCEPT ![g] = rounds[g] + 1]
                 /\ fpc[g] = "forward" /\ g \notin posted /\ c = copy[g]
              \/ rounds' = rounds /\ lock[g] = "nobody"
    BY <1>7a DEF ForceBlock, WorkerBlock
  <2>2. \A f \in Forces \ {g} : Ok(f)'
    BY <1>3, <2>1
  <2>3. c \in Rows /\ Len(c.trail) \in Nat /\ "blocked" \in Outcomes
    BY <2>1 DEF Rows, Outcomes
  <2>4. copy'[g] = Attempted(c, "blocked") /\ row'[g] = row[g]
    BY <2>1
  <2>5. /\ Len(copy'[g].trail) = Len(c.trail) + 1
        /\ copy'[g].status = "dead_lettered" => Failed(copy'[g], blocked)
    BY <2>1, <2>3, <2>4, AttemptedSettles
  <2>6. copy'[g].status = "dead_lettered"
    BY <2>4 DEF Attempted
  <2>7. Counted(g)'
    BY <1>2, <2>1, <2>3, <2>5, <2>6 DEF Ok, Counted
  <2>8. Ok(g)'
    BY <1>1, <1>2, <2>4, <2>5, <2>7 DEF Ok
  <2>9. Answers' /\ \A f \in Forces : Told(f)
    BY <2>1
  <2>10. QED
    BY <2>2, <2>8, <2>9
<1>8. ASSUME NEW g \in Forces, ForceCommit(g) \/ WorkerCommit(g) \/ WorkerCrash(g)
      PROVE  /\ Answers' /\ \A f \in Forces : Ok(f)' /\ Told(f)
  <2>1. /\ \E r \in {row[g], copy[g]} : row' = [row EXCEPT ![g] = r]
        /\ copy' = [copy EXCEPT ![g] = Absent] /\ posted' = posted \ {g}
        /\ \/ fpc' = [fpc EXCEPT ![g] = "posted"]
           \/ fpc' = fpc /\ lock[g] = "worker"
        /\ UNCHANGED <<rounds, answer>>
    BY <1>8 DEF ForceCommit, WorkerCommit, WorkerCrash, At
  <2>2. \A f \in Forces \ {g} : Ok(f)'
    BY <1>3, <2>1
  <2>3. fpc'[g] # "forward" /\ (fpc'[g] = fpc[g] \/ fpc'[g] = "posted")
    BY <2>1
  <2>4. Counted(g)'
    BY <1>2, <2>1, <2>3 DEF Ok, Counted
  <2>5. (row'[g] = row[g] \/ row'[g] = copy[g]) /\ copy'[g].status # "dead_lettered"
    BY <2>1 DEF Absent
  <2>6. Ok(g)'
    <3>1. row'[g].status = "dead_lettered" => Failed(row'[g], blocked)
      BY <1>1, <1>2, <2>5 DEF Ok
    <3>2. QED
      BY <1>1, <2>4, <2>5, <3>1 DEF Ok
  <2>7. QED
    BY <2>1, <2>2, <2>6
<1>9. ASSUME NEW g \in Forces, ForceRedrive(g)
      PROVE  /\ Answers' /\ \A f \in Forces : Ok(f)' /\ Told(f)
  <2>1. /\ row' = [row EXCEPT ![g].status = "pending"]
        /\ UNCHANGED <<copy, posted, fpc, rounds, answer>>
    BY <1>9 DEF ForceRedrive
  <2>2. \A f \in Forces \ {g} : Ok(f)'
    BY <1>3, <2>1
  <2>3. row'[g].status = "pending"
    BY <2>1 DEF Rows
  <2>4. Counted(g)'
    BY <1>2, <2>1 DEF Ok, Counted
  <2>5. Ok(g)'
    BY <1>1, <1>2, <2>1, <2>3, <2>4 DEF Ok
  <2>6. QED
    BY <2>1, <2>2, <2>5
<1>10. ASSUME NEW g \in Forces, Report(g)
       PROVE  /\ Answers' /\ \A f \in Forces : Ok(f)' /\ Told(f)
  <2>1. /\ fpc' = [fpc EXCEPT ![g] = "end"]
        /\ answer' = [answer EXCEPT ![g] =
                        IF row[g].status = "dead_lettered" THEN "dead" ELSE "none"]
        /\ UNCHANGED <<row, copy, posted, rounds>>
    BY <1>10 DEF Report, EndWith, At
  <2>2. \A f \in Forces \ {g} : Ok(f)'
    BY <1>3, <2>1
  <2>3. Counted(g)'
    BY <1>2, <2>1 DEF Ok, Counted
  <2>4. Ok(g)'
    BY <1>1, <1>2, <2>1, <2>3 DEF Ok
  <2>5. Answers' /\ \A f \in Forces : Told(f)
    BY <2>1
  <2>6. QED
    BY <2>2, <2>4, <2>5
<1>11. CASE SetHealth \/ UNCHANGED forceVars
  <2>1. UNCHANGED <<row, copy, lock, posted, fpc, rounds, answer>>
    BY <1>11 DEF SetHealth, forceVars
  <2>2. QED
    <3>1. \A f \in Forces : Counted(f)'
      BY <2>1 DEF Counted
    <3>2. \A f \in Forces : Explained(f)'
      BY <1>1, <2>1 DEF Explained
    <3>3. Answers'
      BY <2>1
    <3>4. QED
      BY <1>1, <3>1, <3>2, <3>3
<1>12. CASE ForceNext /\ ~SetHealth
  <2>1. Answers' /\ \A f \in Forces : Ok(f)' /\ Told(f)
    BY <1>4, <1>5, <1>6, <1>7, <1>8, <1>9, <1>10, <1>12, <1>7a DEF ForceNext, ForceStep
  <2>2. \A f \in Forces : Explained(f)'
    BY <1>1, <1>12, <2>1, ExplainedStays DEF Ok
  <2>3. \A f \in Forces : Counted(f)'
    BY <2>1 DEF Ok
  <2>4. QED
    BY <1>1, <2>1, <2>2, <2>3
<1>13. QED
  BY <1>11, <1>12

(* A request that has been through its loop (_fast_forward_to_dead_letter) *)
(* leaves its delivery settled, and what it calls a dead letter has failed *)
(* for good or has a URL that the SSRF check refuses (process_delivery).   *)
THEOREM ForceSettles == ForceSpec => ForcedSettles
<1> DEFINE Step == \A f \in Forces :
                      fpc[f] = "forward" /\ fpc'[f] = "posted" =>
                         row'[f].status \in {"succeeded", "dead_lettered"}
           Dead == \A f \in Forces :
                      answer[f] = "dead" =>
                         \E n \in 1 .. Len(row[f].trail) :
                            \/ row[f].trail[n] = "failed" /\ n >= ForceAttempts
                            \/ row[f].trail[n] = "blocked" /\ blocked
<1>1. SettleIInv => Dead
  BY DEF SettleIInv, Explained, Failed, Failed
<1>2. SettleIInv /\ [ForceNext]_forceVars => [Step]_<<fpc, row>>
  <2> SUFFICES ASSUME SettleIInv, ForceNext, NEW f \in Forces,
                      fpc[f] = "forward", fpc'[f] = "posted"
               PROVE  row'[f].status \in {"succeeded", "dead_lettered"}
    BY DEF forceVars
  <2> USE ForceAssumption DEF SettleIInv, IInv, ForceTypeOK
  <2>1. ForceCommit(f)
    <3>1. \A g \in Forces : CheckHealth(g) \/ Emit(g) \/ AskLock(g) \/ LockRow(g)
               \/ LockTimesOut(g) \/ PoolTimesOut(g) \/ Report(g)
            => \E place \in {"checked", "emitted", "locking", "forward", "end"} :
                  fpc' = [fpc EXCEPT ![g] = place]
      BY DEF CheckHealth, Emit, AskLock, LockRow, LockTimesOut, PoolTimesOut, Report, EndWith, At
    <3>2. \A g \in Forces : ForcePost(g) \/ ForceBlock(g) \/ CallStep(g) \/ WorkerClaim(g)
               \/ WorkerBlock(g) \/ WorkerCommit(g) \/ WorkerCrash(g) \/ ForceRedrive(g)
            => fpc' = fpc
      BY DEF ForcePost, ForceBlock, CallStep, Receive, PostTimesOut, Recorded, WorkerClaim,
             WorkerBlock, WorkerCommit, WorkerCrash, ForceRedrive
    <3>3. \A g \in Forces : ForceCommit(g) => fpc' = [fpc EXCEPT ![g] = "posted"]
      BY DEF ForceCommit, At
    <3>4. SetHealth => fpc' = fpc
      BY DEF SetHealth
    <3>5. PICK g \in Forces : ForceCommit(g)
      BY <3>1, <3>2, <3>4 DEF ForceNext, ForceStep
    <3>6. g = f
      BY <3>3, <3>5
    <3>7. QED
      BY <3>5, <3>6
  <2>2. f \notin posted /\ ~MoreRounds(f) /\ row'[f] = copy[f]
    BY <2>1 DEF ForceCommit
  <2>3. copy[f].status \in {"succeeded", "dead_lettered"}
    BY <2>2 DEF MoreRounds, Counted
  <2>4. QED
    BY <2>2, <2>3
<1>3. QED
  BY <1>1, <1>2, SettleInit, SettleStep, PTL DEF ForceSpec, ForcedSettles
=============================================================================
