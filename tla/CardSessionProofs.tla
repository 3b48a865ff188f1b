------------------------- MODULE CardSessionProofs -------------------------
(***************************************************************************)
(* For any number of tags, blocks, values and keys: the type invariant of  *)
(* CardSession, what the answer of readSector and writeSector is worth,    *)
(* the freshness of the cached sector, and that CardSession implements     *)
(* CasCard.  The last two need the bytes behind the configured key not to  *)
(* be the tag's key by accident.                                           *)
(***************************************************************************)
EXTENDS CardSession, TLAPS

USE CardAssumption DEF Blocks, Readable

LEMMA InitType == Init => TypeOK
<1> SUFFICES ASSUME Init PROVE TypeOK
  OBVIOUS
<1>1. cache \in [Blocks -> Values] /\ st \in [Blocks -> States]
  BY DEF Init, States
<1>2. seen \in [Blocks -> Values \cup {Unseen}]
  BY DEF Init
<1>3. blk \in 0 .. LastBlk + 1 /\ key \in 0 .. KeyTries - 1
  BY DEF Init
<1>4. mem \in [Readable -> [Blocks -> Values]]
  BY DEF Init
<1> QED
  BY <1>1, <1>2, <1>3, <1>4 DEF Init, TypeOK, PCs

(* The 'found' and 'edit' phases of the loop, and the poll. *)
LEMMA LoopType == TypeOK /\ Loop => TypeOK'
<1> SUFFICES ASSUME TypeOK, Loop PROVE TypeOK'
  OBVIOUS
<1> USE DEF TypeOK, States, PCs, world, image, history
<1>1. CASE PollPresent BY <1>1 DEF PollPresent
<1>2. CASE PollMiss BY <1>2 DEF PollMiss
<1>3. CASE FindCard BY <1>3 DEF FindCard, Finding, NewCard
<1>4. CASE FindNothing BY <1>4 DEF FindNothing, Finding, NewCard
<1>5. CASE FindUnsupported BY <1>5 DEF FindUnsupported, Finding
<1>6. CASE StartRead BY <1>6 DEF StartRead
<1>7. CASE SkipRead BY <1>7 DEF SkipRead
<1>8. CASE StartWrite BY <1>8 DEF StartWrite
<1>9. CASE EndProcess BY <1>9 DEF EndProcess
<1>10. CASE Leave BY <1>10 DEF Leave, NewCard
<1>11. ASSUME NEW b \in Blocks, NEW v \in Values, Edit(b, v) PROVE TypeOK'
  BY <1>11 DEF Edit
<1> QED
  BY <1>1, <1>2, <1>3, <1>4, <1>5, <1>6, <1>7, <1>8, <1>9, <1>10, <1>11 DEF Loop

LEMMA WorldType == TypeOK /\ World => TypeOK'
<1> SUFFICES ASSUME TypeOK, World PROVE TypeOK'
  OBVIOUS
<1> USE DEF TypeOK, States, PCs, world, image, history
<1>1. CASE Remove BY <1>1 DEF Remove
<1>2. ASSUME NEW t \in Tags, Place(t) PROVE TypeOK'
  BY <1>2 DEF Place
<1>3. ASSUME NEW t \in Readable, NEW b \in Blocks, NEW v \in Values, Elsewhere(t, b, v)
      PROVE TypeOK'
  BY <1>3 DEF Elsewhere
<1> QED
  BY <1>1, <1>2, <1>3 DEF World

LEMMA CardOpType == TypeOK /\ CardOp => TypeOK'
<1> SUFFICES ASSUME TypeOK, CardOp PROVE TypeOK'
  OBVIOUS
<1> USE DEF TypeOK, States, PCs, world, image, history
<1>1. CASE SkipBlock BY <1>1 DEF SkipBlock, NextBlock
<1>2. CASE AuthOk BY <1>2 DEF AuthOk
<1>3. CASE AuthFail BY <1>3 DEF AuthFail
<1>4. CASE RetryNextKey BY <1>4 DEF RetryNextKey
<1>5. CASE RetryGiveUp BY <1>5 DEF RetryGiveUp, GiveUpBlock, NextBlock
<1>6. CASE Throw BY <1>6 DEF Throw
<1>7. CASE ReadBlock BY <1>7 DEF ReadBlock, NextBlock
<1>8. CASE WriteBlock
  <2>1. blk \in Blocks /\ held \in Readable /\ cache[blk] \in Values
    BY <1>8 DEF WriteBlock
  <2>2. mem' \in [Readable -> [Blocks -> Values]]
    BY <1>8, <2>1 DEF WriteBlock
  <2>3. seen' \in [Blocks -> Values \cup {Unseen}]
    BY <1>8, <2>1 DEF WriteBlock
  <2> QED
    BY <1>8, <2>1, <2>2, <2>3 DEF WriteBlock, NextBlock
<1>9. CASE XferFail
  <2>1. blk \in Blocks /\ held \in Readable /\ cache[blk] \in Values
    BY <1>9 DEF XferFail
  <2>2. mem' = mem \/ mem' = [mem EXCEPT ![held][blk] = cache[blk]]
    BY <1>9 DEF XferFail
  <2>3. [mem EXCEPT ![held][blk] = cache[blk]] \in [Readable -> [Blocks -> Values]]
    BY <2>1
  <2> QED
    BY <1>9, <2>1, <2>2, <2>3 DEF XferFail
<1>10. CASE LostGiveUp BY <1>10 DEF LostGiveUp, GiveUpBlock, NextBlock
<1>11. CASE EndOp BY <1>11 DEF EndOp
<1> QED
  BY <1>1, <1>2, <1>3, <1>4, <1>5, <1>6, <1>7, <1>8, <1>9, <1>10, <1>11 DEF CardOp

(* Every variable keeps its domain: in particular a Card is held wherever  *)
(* the code of the modes dereferences one.                                 *)
THEOREM TypeCorrect == Spec => []TypeOK
<1>1. TypeOK /\ UNCHANGED vars => TypeOK'
  BY DEF TypeOK, vars
<1>2. TypeOK /\ [Next]_vars => TypeOK'
  BY <1>1, LoopType, WorldType, CardOpType DEF Next
<1> QED
  BY InitType, <1>2, PTL DEF Spec

-----------------------------------------------------------------------------
(* What the answer of an operation is worth. *)

Wanted == {b \in Blocks : op = "write" => st[b] = "MODIFIED"}

(* Strengthening: the blocks an operation has passed are already accounted *)
(* for, and a new Card has no answer yet.                                   *)
OpProgress ==
    /\ pc = "found" => status = "none"
    /\ pc \in {"auth", "retry", "xfer", "lost"} =>
          \A b \in Wanted : b < blk => b \in done \cup skipped

Reported == TypeOK /\ OpReported /\ OpProgress

LEMMA ReportedStep == Reported /\ [Next]_vars => Reported'
<1> SUFFICES ASSUME Reported, [Next]_vars PROVE OpReported' /\ OpProgress'
  <2>1. TypeOK /\ UNCHANGED vars => TypeOK'
    BY DEF TypeOK, vars
  <2> QED
    BY <2>1, LoopType, WorldType, CardOpType DEF Reported, Next
<1> USE DEF Reported, TypeOK, OpReported, OpProgress, Wanted, world, image, history
<1>1. CASE UNCHANGED vars BY <1>1 DEF vars
<1>2. CASE World BY <1>2 DEF World, Remove, Place, Elsewhere
<1>3. CASE Loop
  <2>1. CASE FindCard
    <3>1. status' = "none" /\ pc' = "found"
      BY <2>1 DEF FindCard, NewCard
    <3> QED BY <3>1
  <2>2. CASE StartRead BY <2>2 DEF StartRead
  <2>3. CASE StartWrite BY <2>3 DEF StartWrite
  <2>4. ASSUME NEW b \in Blocks, NEW v \in Values, Edit(b, v)
        PROVE OpReported' /\ OpProgress'
    BY <2>4 DEF Edit
  <2>5. CASE PollPresent \/ PollMiss \/ FindNothing \/ FindUnsupported
             \/ SkipRead \/ EndProcess \/ Leave
    BY <2>5 DEF PollPresent, PollMiss, FindNothing, FindUnsupported, Finding,
                SkipRead, EndProcess, Leave, NewCard
  <2> QED BY <1>3, <2>1, <2>2, <2>3, <2>4, <2>5 DEF Loop
<1>4. CASE CardOp
  <2>1. CASE SkipBlock BY <2>1 DEF SkipBlock, Skip, NextBlock
  <2>2. CASE RetryGiveUp \/ LostGiveUp
    BY <2>2 DEF RetryGiveUp, LostGiveUp, GiveUpBlock, NextBlock
  <2>3. CASE ReadBlock BY <2>3 DEF ReadBlock, NextBlock
  <2>4. CASE WriteBlock BY <2>4 DEF WriteBlock, NextBlock
  <2>5. CASE EndOp BY <2>5 DEF EndOp
  <2>6. CASE AuthOk \/ AuthFail \/ RetryNextKey \/ XferFail
    BY <2>6 DEF AuthOk, AuthFail, RetryNextKey, XferFail
  <2>7. CASE Throw BY <2>7 DEF Throw
  <2> QED BY <1>4, <2>1, <2>2, <2>3, <2>4, <2>5, <2>6, <2>7 DEF CardOp
<1> QED
  BY <1>1, <1>2, <1>3, <1>4 DEF Next

(* "true" from readSector or writeSector means that each block they were   *)
(* to transfer was transferred or had an error printed for it.             *)
THEOREM OpAnswer == Spec => []OpReported
<1>1. Init => Reported
  BY InitType DEF Init, Reported, OpReported, OpProgress
<1>2. Reported => OpReported
  BY DEF Reported
<1> QED
  BY <1>1, <1>2, ReportedStep, PTL DEF Spec

-----------------------------------------------------------------------------
(* What is written, and where. *)

(* Strengthening: a key is only ever tried on a block that is to be        *)
(* transferred, so no transfer begins on a block that is passed over.      *)
Targeted ==
    key > 0 \/ pc \in {"retry", "xfer", "lost"} =>
        pc \in {"auth", "retry", "xfer", "lost"} /\ blk \in Blocks /\ ~Skip(blk)

Aimed == TypeOK /\ Targeted

LEMMA AimedStep == Aimed /\ [Next]_vars => Aimed'
<1> SUFFICES ASSUME Aimed, [Next]_vars PROVE Targeted'
  <2>1. TypeOK /\ UNCHANGED vars => TypeOK'
    BY DEF TypeOK, vars
  <2> QED
    BY <2>1, LoopType, WorldType, CardOpType DEF Aimed, Next
<1> USE DEF Aimed, TypeOK, Targeted, Skip, world, image, history
<1>1. CASE UNCHANGED vars BY <1>1 DEF vars
<1>2. CASE World BY <1>2 DEF World, Remove, Place, Elsewhere
<1>3. CASE Loop
  <2>1. pc \in {"poll", "find", "found", "edit"} => key = 0
    OBVIOUS
  <2>2. pc \in {"poll", "find", "found", "edit"} /\ key' \in {0, key}
    BY <1>3 DEF Loop, PollPresent, PollMiss, FindCard, FindNothing, FindUnsupported,
                StartRead, SkipRead, StartWrite, EndProcess, Leave, Edit, Finding
  <2>3. pc' \in {"poll", "find", "found", "edit", "auth"}
    BY <1>3 DEF Loop, PollPresent, PollMiss, FindCard, FindNothing, FindUnsupported,
                StartRead, SkipRead, StartWrite, EndProcess, Leave, Edit, Finding
  <2> QED BY <2>1, <2>2, <2>3
<1>4. CASE CardOp
  <2>1. CASE SkipBlock \/ AuthOk \/ AuthFail \/ RetryNextKey \/ XferFail
    BY <2>1 DEF SkipBlock, NextBlock, AuthOk, AuthFail, RetryNextKey, XferFail
  <2>2. CASE RetryGiveUp \/ LostGiveUp \/ ReadBlock \/ WriteBlock
    BY <2>2 DEF RetryGiveUp, LostGiveUp, ReadBlock, WriteBlock, GiveUpBlock, NextBlock
  <2>3. CASE Throw BY <2>3 DEF Throw
  <2>4. CASE EndOp BY <2>4 DEF EndOp
  <2> QED BY <1>4, <2>1, <2>2, <2>3, <2>4 DEF CardOp
<1> QED
  BY <1>1, <1>2, <1>3, <1>4 DEF Next

LEMMA AimedInit == Init => Aimed
BY InitType DEF Init, Aimed, Targeted

Edited ==
    \A t \in Readable, b \in Blocks :
        t = field /\ mem'[t][b] # mem[t][b] =>
            t = held /\ st[b] = "MODIFIED" /\ mem'[t][b] = cache[b]

LEMMA EditedStep == Aimed /\ [Next]_vars => Edited
<1> SUFFICES ASSUME Aimed, [Next]_vars,
                    NEW t \in Readable, NEW b \in Blocks,
                    t = field, mem'[t][b] # mem[t][b]
             PROVE  t = held /\ st[b] = "MODIFIED" /\ mem'[t][b] = cache[b]
  BY DEF Edited
<1> USE DEF Aimed, TypeOK, world, image, history
<1>1. CASE UNCHANGED vars BY <1>1 DEF vars
<1>2. CASE Loop
  BY <1>2 DEF Loop, PollPresent, PollMiss, FindCard, FindNothing, FindUnsupported,
              StartRead, SkipRead, StartWrite, EndProcess, Leave, Edit
<1>3. CASE World
  BY <1>3 DEF World, Remove, Place, Elsewhere
<1>4. CASE CardOp
  <2>1. CASE WriteBlock \/ XferFail
    <3>1. pc = "xfer" /\ op = "write" /\ mem' = [mem EXCEPT ![held][blk] = cache[blk]]
      BY <2>1 DEF WriteBlock, XferFail
    <3>2. held \in Readable /\ blk \in Blocks /\ st[blk] = "MODIFIED"
      BY <3>1 DEF Targeted, Skip
    <3>3. t = held /\ b = blk
      BY <3>1, <3>2
    <3> QED BY <3>1, <3>2, <3>3
  <2>2. UNCHANGED mem \/ WriteBlock \/ XferFail
    BY <1>4 DEF CardOp, SkipBlock, AuthOk, AuthFail, RetryNextKey, RetryGiveUp,
                Throw, ReadBlock, LostGiveUp, EndOp
  <2> QED BY <2>1, <2>2
<1> QED
  BY <1>1, <1>2, <1>3, <1>4 DEF Next

(* A tag on the reader is changed only where the mode marked a block       *)
(* MODIFIED in a Card made of that very tag.                               *)
THEOREM WritesOnlyEdited == Spec => OnlyEdited
<1>1. Aimed /\ [Next]_vars => [Edited]_vars
  BY EditedStep
<1> QED
  BY <1>1, AimedInit, AimedStep, PTL DEF Spec, OnlyEdited, Edited

-----------------------------------------------------------------------------
(* Freshness.  The bytes behind the one configured key are not the key. *)

NoLuck == TRUE \notin OverreadHits

(* Strengthening: a failed exchange leaves no session, and a key other     *)
(* than the configured one never gets as far as a transfer.                *)
SessionBroken == pc \in {"retry", "lost"} => link = NoTag
OtherKey      == key > 0 => pc \in {"auth", "retry"}

Fresh == Aimed /\ FreshView /\ SessionBroken /\ OtherKey

LEMMA FreshStep == ASSUME NoLuck PROVE Fresh /\ [Next]_vars => Fresh'
<1> SUFFICES ASSUME Fresh, [Next]_vars
             PROVE  FreshView' /\ SessionBroken' /\ OtherKey'
  <2>1. Aimed /\ [Next]_vars => Aimed'
    BY AimedStep
  <2> QED
    BY <2>1 DEF Fresh
<1> USE DEF Fresh, Aimed, Targeted, TypeOK, FreshView, SessionBroken, OtherKey, Skip,
            world, image, history
<1>1. CASE UNCHANGED vars BY <1>1 DEF vars
<1>2. CASE World
  <2>1. CASE Remove BY <2>1 DEF Remove
  <2>2. ASSUME NEW t \in Tags, Place(t)
        PROVE  FreshView' /\ SessionBroken' /\ OtherKey'
    BY <2>2 DEF Place
  <2>3. ASSUME NEW t \in Readable, NEW c \in Blocks, NEW v \in Values, Elsewhere(t, c, v)
        PROVE  FreshView' /\ SessionBroken' /\ OtherKey'
    <3>1. link = held /\ held # NoTag => mem'[held] = mem[held]
      BY <2>3 DEF Elsewhere
    <3> QED BY <2>3, <3>1 DEF Elsewhere
  <2> QED BY <1>2, <2>1, <2>2, <2>3 DEF World
<1>3. CASE Loop
  <2>0. pc \in {"found", "edit"} => key = 0
    OBVIOUS
  <2>1. CASE FindCard \/ FindNothing \/ Leave
    <3>1. seen' = [b \in Blocks |-> Unseen] /\ key' = key
      BY <2>1 DEF FindCard, FindNothing, Leave, NewCard
    <3>2. pc \in {"poll", "find", "edit"} /\ pc' \in {"found", "poll"}
      BY <2>1 DEF FindCard, FindNothing, Leave, Finding
    <3> QED BY <3>1, <3>2
  <2>2. CASE PollPresent BY <2>2 DEF PollPresent
  <2>3. CASE PollMiss BY <2>3 DEF PollMiss
  <2>4. CASE FindUnsupported BY <2>4 DEF FindUnsupported, Finding
  <2>5. CASE StartRead \/ SkipRead \/ EndProcess
    <3>1. CASE StartRead
      <4>1. /\ UNCHANGED <<mem, link, held, seen, tainted>>
            /\ pc = "found" /\ pc' = "auth" /\ key' = 0
        BY <3>1 DEF StartRead
      <4> QED BY <2>0, <4>1
    <3>2. CASE SkipRead BY <2>0, <3>2 DEF SkipRead
    <3>3. CASE EndProcess BY <2>0, <3>3 DEF EndProcess
    <3> QED BY <2>5, <3>1, <3>2, <3>3
  <2>6. CASE StartWrite
    <3>1. /\ UNCHANGED <<mem, link, held, seen, tainted>>
          /\ pc = "edit" /\ pc' = "auth" /\ key' = 0
      BY <2>6 DEF StartWrite
    <3> QED BY <2>0, <3>1
  <2>7. ASSUME NEW c \in Blocks, NEW v \in Values, Edit(c, v)
        PROVE  FreshView' /\ SessionBroken' /\ OtherKey'
    BY <2>7 DEF Edit
  <2> QED BY <1>3, <2>1, <2>2, <2>3, <2>4, <2>5, <2>6, <2>7 DEF Loop
<1>4. CASE CardOp
  <2>1. CASE SkipBlock BY <2>1 DEF SkipBlock, NextBlock
  <2>2. CASE AuthOk
    <3>1. key = 0
      BY <2>2 DEF AuthOk, CanAuth, NoLuck
    <3> QED BY <2>2, <3>1 DEF AuthOk
  <2>3. CASE AuthFail \/ RetryNextKey BY <2>3 DEF AuthFail, RetryNextKey
  <2>4. CASE RetryGiveUp \/ LostGiveUp
    BY <2>4 DEF RetryGiveUp, LostGiveUp, GiveUpBlock, NextBlock
  <2>5. CASE Throw BY <2>5 DEF Throw
  <2>6. CASE ReadBlock BY <2>6 DEF ReadBlock, NextBlock
  <2>7. CASE WriteBlock
    <3>1. held \in Readable /\ blk \in Blocks /\ key = 0
      BY <2>7 DEF WriteBlock
    <3>2. mem'[held] = [mem[held] EXCEPT ![blk] = cache[blk]]
      BY <2>7, <3>1 DEF WriteBlock
    <3>3. seen' = [seen EXCEPT ![blk] = cache[blk]]
      BY <2>7 DEF WriteBlock
    <3>4. \A b \in Blocks : seen[b] \in {Unseen, mem[held][b]} =>
                              seen'[b] \in {Unseen, mem'[held][b]}
      BY <3>1, <3>2, <3>3
    <3> QED BY <2>7, <3>1, <3>4 DEF WriteBlock, NextBlock
  <2>8. CASE XferFail BY <2>8 DEF XferFail
  <2>9. CASE EndOp BY <2>9 DEF EndOp
  <2> QED BY <1>4, <2>1, <2>2, <2>3, <2>4, <2>5, <2>6, <2>7, <2>8, <2>9 DEF CardOp
<1> QED
  BY <1>1, <1>2, <1>3, <1>4 DEF Next

LEMMA FreshInit == Init => Fresh
<1>1. Init => pc = "poll" /\ key = 0
  BY DEF Init
<1>2. Init => FreshView /\ SessionBroken /\ OtherKey
  BY <1>1 DEF FreshView, SessionBroken, OtherKey
<1> QED
  BY AimedInit, <1>2 DEF Fresh

(* While its reader session is unbroken and nothing was reported, what the *)
(* Card has cached is what the tag holds.                                  *)
THEOREM CacheFresh == ASSUME NoLuck PROVE Spec => []FreshView
<1>1. Fresh => FreshView
  BY DEF Fresh
<1> QED
  BY <1>1, FreshInit, FreshStep, PTL DEF Spec

-----------------------------------------------------------------------------
(* Refinement. *)

LEMMA CasInit == Init => Cas!Init
BY DEF Init, Cas!Init

LEMMA CasStep == ASSUME NoLuck PROVE Fresh /\ [Next]_vars => [Cas!Next]_(Cas!vars)
<1> SUFFICES ASSUME Fresh, [Next]_vars PROVE Cas!Next \/ UNCHANGED Cas!vars
  OBVIOUS
<1> USE DEF Fresh, Aimed, TypeOK, world, image, history
<1>1. CASE UNCHANGED vars BY <1>1 DEF vars, Cas!vars
<1>2. CASE World
  <2>1. CASE Remove BY <2>1 DEF Remove, Cas!Next, Cas!Move
  <2>2. ASSUME NEW t \in Tags, Place(t) PROVE Cas!Next
    BY <2>2 DEF Place, Cas!Next, Cas!Move
  <2>3. ASSUME NEW t \in Readable, NEW b \in Blocks, NEW v \in Values, Elsewhere(t, b, v)
        PROVE  Cas!Next
    <3>1. Cas!Foreign(t, b, v)
      BY <2>3 DEF Elsewhere, Cas!Foreign
    <3> QED BY <3>1 DEF Cas!Next
  <2> QED BY <1>2, <2>1, <2>2, <2>3 DEF World
<1>3. CASE Loop
  <2>1. CASE FindCard \/ FindNothing \/ Leave
    BY <2>1 DEF FindCard, FindNothing, Leave, NewCard, Cas!Next, Cas!NewSession
  <2>2. UNCHANGED <<field, mem, held, seen, tainted>> \/ FindCard \/ FindNothing \/ Leave
    BY <1>3 DEF Loop, PollPresent, PollMiss, FindUnsupported, StartRead, SkipRead,
                StartWrite, EndProcess, Edit
  <2> QED BY <2>1, <2>2 DEF Cas!vars
<1>4. CASE CardOp
  <2>1. CASE RetryGiveUp \/ LostGiveUp
    BY <2>1 DEF RetryGiveUp, LostGiveUp, GiveUpBlock, Cas!Next, Cas!Report
  <2>2. CASE ReadBlock
    <3>1. blk \in Blocks /\ held # NoTag /\ Cas!Observe(blk)
      BY <2>2 DEF ReadBlock, Cas!Observe
    <3> QED BY <3>1 DEF Cas!Next
  <2>3. ASSUME pc = "xfer", op = "write", link = held,
               mem' = [mem EXCEPT ![held][blk] = cache[blk]],
               seen' \in {seen, [seen EXCEPT ![blk] = cache[blk]]},
               UNCHANGED <<field, held, tainted>>
        PROVE  Cas!Next
    <3>1. blk \in Blocks /\ cache[blk] \in Values /\ held \in Readable /\ field = held
      BY <2>3
    <3>2. key = 0
      BY <2>3 DEF OtherKey
    <3>3. seen[blk] \in {Unseen, mem[held][blk]} \/ tainted
      BY <2>3, <3>1, <3>2 DEF FreshView
    <3>4. Cas!Swap(blk, cache[blk])
      BY <2>3, <3>1, <3>3 DEF Cas!Swap
    <3> QED BY <3>1, <3>4 DEF Cas!Next
  <2>4. CASE WriteBlock
    BY <2>3, <2>4 DEF WriteBlock
  <2>5. CASE XferFail
    BY <2>3, <2>5 DEF XferFail, Cas!vars
  <2>6. UNCHANGED <<field, mem, held, seen, tainted>>
        \/ RetryGiveUp \/ LostGiveUp \/ ReadBlock \/ WriteBlock \/ XferFail
    BY <1>4 DEF CardOp, SkipBlock, AuthOk, AuthFail, RetryNextKey, Throw, EndOp
  <2> QED BY <2>1, <2>2, <2>4, <2>5, <2>6 DEF Cas!vars
<1> QED
  BY <1>1, <1>2, <1>3, <1>4 DEF Next

(* CardSession implements CasCard: until an error was printed, a block is  *)
(* overwritten only if it still holds what this Card last saw in it.       *)
THEOREM CardImplementsCas == ASSUME NoLuck PROVE Spec => Refines
<1> QED
  BY CasInit, CasStep, FreshInit, FreshStep, PTL DEF Spec, Refines, Cas!Spec

=============================================================================
