---------------------------- MODULE Pn53xTargets ----------------------------
(***************************************************************************)
(* How libnfc's PN53x code finds a target, remembers it and tells whether  *)
(* it is still there: select_passive_target, poll_target, deselect_target, *)
(* idle and target_is_present of chips/pn53x.c, exchange by exchange, while*)
(* targets come and go.  The chip knows the target it selected last, the   *)
(* driver keeps a copy of it.                                              *)
(***************************************************************************)
EXTENDS Naturals, Sequences, FiniteSets

CONSTANTS
    Target,       \* the targets that may come near the reader
    Kinds,        \* what the targets may be: functions from Target to kinds
    Polled,       \* the modulations poll_target is called with, in order
    MaxPolls,     \* BOUND: uiPollNr, less than 0xff, and periods of poll_dep_target
    MaxListed,    \* BOUND: targets the array given to list_passive_targets has room for
    MaxCalls,     \* BOUND: calls
    MaxFaults,    \* BOUND: exchanges that fail
    None          \* model value

TypeA == {"A4", "MFUL", "MFC", "MFCMini"}
Raw   == {"BI", "B2SR", "B2CT"}  \* found by hand, InListPassiveTarget does not know them
Modulation(k) == IF k \in TypeA THEN "A" ELSE k

VARIABLES
    type,     \* of the chip
    Kind,     \* of each target: the modulation and, for type A, what the SAK says
    present,  \* the targets in the field
    selected, \* the target the chip selected
    current_target, bInfiniteSelect, bEasyFraming,
    retries,  \* the chip tries "forever", or a "few" times
    pc,       \* the exchange awaited, "idle" between two calls
    call, asked, nm, p, n, failures, saved,  \* the call and its local variables; asked is the target
                                             \* a check is about, or the targets listed so far
    ret,      \* what the last call returned
    calls, faults,
    seen,     \* history: the targets present at some time of the call
    failed,   \* history: an exchange of the call failed
    mistaken, \* history: a listing failed since current_target was set
    took      \* history: a listing of the call selected a target

env   == <<type, Kind, present, seen>>
state == <<selected, current_target, bInfiniteSelect, bEasyFraming, retries>>
local == <<call, asked, nm, p, n, failures, saved>>
past  == <<mistaken, took>>
vars  == <<env, state, pc, local, ret, calls, faults, failed, past>>

Init ==
    /\ type \in {"PN531", "PN532", "PN533"} /\ Kind \in Kinds /\ present \in SUBSET Target
    /\ selected = None /\ current_target = None
    /\ bInfiniteSelect = TRUE /\ bEasyFraming = TRUE /\ retries = "forever"
    /\ pc = "idle" /\ call = "none" /\ asked = None /\ nm = "A" /\ p = 0 /\ n = 1 /\ failures = 0 /\ saved = TRUE
    /\ ret = "none" /\ calls = 0 /\ faults = 0 /\ seen = {} /\ failed = FALSE
    /\ mistaken = FALSE /\ took = FALSE

(* target_is_present forgets a target it found gone, but for one that is   *)
(* not the one selected last.                                              *)
Gone(r) == call = "is_present" /\ r = "ETGRELEASED"

Return(r) ==
    /\ pc' = "idle" /\ ret' = r
    /\ current_target' = IF Gone(r) THEN None ELSE current_target

Fault == faults < MaxFaults /\ faults' = faults + 1 /\ failed' = TRUE
Well  == UNCHANGED <<faults, failed>>

-----------------------------------------------------------------------------
(* The start of a call. *)

Enter(name) ==
    /\ pc = "idle" /\ calls < MaxCalls /\ calls' = calls + 1
    /\ call' = name /\ ret' = "none" /\ seen' = present /\ failed' = FALSE /\ took' = FALSE
    /\ saved' = bInfiniteSelect /\ failures' = 0 /\ p' = 1 /\ n' = 1
    /\ UNCHANGED <<type, Kind, present, selected, retries, faults, mistaken>>

(* pn53x_initiator_select_passive_target_ext.  The raw modulations set the  *)
(* framing they need and leave it so.                                      *)
SelectExt(m) ==
    /\ nm' = m
    /\ pc' = CASE m \in Raw -> "raw" [] m = "DEP" -> "dep" [] OTHER -> "list"
    /\ bEasyFraming' = (bEasyFraming /\ m \notin Raw)

Select(m) ==
    /\ Enter("select") /\ SelectExt(m) /\ asked' = None /\ UNCHANGED bInfiniteSelect
    /\ current_target' = IF m = "DEP" THEN None ELSE current_target

(* nfc_initiator_list_passive_targets: a call made of selections, which try *)
(* a few times only.                                                       *)
List(m) ==
    /\ Enter("list") /\ m # "DEP" /\ pc' = "set" /\ bInfiniteSelect' = FALSE /\ nm' = m /\ asked' = {}
    /\ UNCHANGED <<current_target, bEasyFraming>>

(* nfc_initiator_poll_dep_target *)
PollDep ==
    /\ Enter("poll_dep") /\ pc' = "set" /\ bInfiniteSelect' = TRUE /\ nm' = "DEP"
    /\ asked' = None /\ UNCHANGED <<current_target, bEasyFraming>>

(* pn53x_initiator_poll_target: a PN532 polls by itself, with InAutoPoll,    *)
(* but not for a raw modulation.  The copy of NP_INFINITE_SELECT changes     *)
(* whether or not the chip obeys.                                          *)
Poll ==
    /\ Enter("poll") /\ nm' = Polled[1]
    /\ IF type = "PN532"
       THEN /\ pc' = IF \E i \in DOMAIN Polled : Polled[i] \in Raw THEN "end" ELSE "auto"
            /\ UNCHANGED bInfiniteSelect
       ELSE pc' = "set" /\ bInfiniteSelect' = TRUE
    /\ asked' = None /\ UNCHANGED <<current_target, bEasyFraming>>

Deselect ==
    /\ Enter("deselect") /\ current_target' = None /\ pc' = "deselect"
    /\ asked' = None /\ UNCHANGED <<nm, bInfiniteSelect, bEasyFraming>>

Idle ==
    /\ Enter("idle") /\ pc' = "release"
    /\ asked' = None /\ UNCHANGED <<nm, current_target, bInfiniteSelect, bEasyFraming>>

(* How target_is_present asks a target of kind k. *)
Ping(k) ==
    CASE k = "DEP" \/ (k \in {"MFC", "MFUL", "B"} /\ type = "PN533") -> "diagnose"
      [] k = "A4" -> CASE type = "PN533" -> "diagnose" [] type = "PN532" -> "unframed" [] OTHER -> "end"
      [] k \in {"MFC", "MFCMini"} -> "reselect"
      [] k \in {"B", "BI"} -> "unframed"
      [] OTHER -> "plain"

Tries(k) == IF k = "FELICA" THEN 3 ELSE 2

(* pn53x_initiator_target_is_present, asked about the target t or, with      *)
(* None, about the one that was selected last.                             *)
IsPresent(t) ==
    /\ Enter("is_present") /\ asked' = t
    /\ LET ping == IF current_target = None \/ t \notin {None, current_target} THEN "end"
                   ELSE Ping(Kind[current_target])
       IN  /\ pc' = CASE ping = "reselect" -> "set" [] ping \in {"plain", "unframed"} -> "ping" [] OTHER -> ping
           /\ bEasyFraming' = (bEasyFraming /\ ping # "unframed")
           /\ bInfiniteSelect' = (bInfiniteSelect /\ ping # "reselect")
           /\ nm' = IF ping = "reselect" THEN "A" ELSE nm
    /\ UNCHANGED current_target

-----------------------------------------------------------------------------
(* The end of a call, and of the listings a call is made of. *)

(* A call that is refused asks nothing of the chip; a target that is not    *)
(* the last one selected is "released", and the last one kept.             *)
End ==
    /\ pc = "end" /\ pc' = "idle"
    /\ ret' = IF call = "is_present" /\ current_target # None /\ asked \notin {None, current_target}
              THEN "ETGRELEASED" ELSE "error"
    /\ UNCHANGED <<env, state, local, calls, faults, failed, past>>

(* The calls that set the number of tries for themselves. *)
Setters == {"poll", "is_present", "list", "poll_dep"}

(* These calls set back the number of tries they                           *)
(* found, whatever the result r.                                           *)
Restore(r) ==
    IF call \in Setters /\ saved # bInfiniteSelect
    THEN bInfiniteSelect' = saved /\ pc' = "restore" /\ ret' = r /\ UNCHANGED current_target
    ELSE Return(r) /\ UNCHANGED bInfiniteSelect

Told == IF bInfiniteSelect THEN "forever" ELSE "few"

SetAnswered ==
    /\ pc = "set"
    /\ \/ /\ Well /\ retries' = Told /\ SelectExt(nm) /\ UNCHANGED ret
          /\ current_target' = IF nm = "DEP" THEN None ELSE current_target
       \/ Fault /\ retries' \in {retries, Told} /\ Return("error") /\ UNCHANGED <<nm, bEasyFraming>>
    /\ UNCHANGED <<env, selected, bInfiniteSelect, call, asked, p, n, failures, saved, calls, past>>

RestoreAnswered ==
    /\ pc = "restore"
    /\ \/ Well /\ retries' = Told /\ Return(ret)
       \/ Fault /\ retries' \in {retries, Told} /\ Return("error")
    /\ UNCHANGED <<env, selected, bInfiniteSelect, bEasyFraming, local, calls, past>>

(* The targets a listing may find: the check asks for one UID, a raw         *)
(* modulation or InListPassiveTarget for any.                              *)
Found == {t \in present : /\ Modulation(Kind[t]) = nm
                          /\ call = "is_present" => t = current_target}

Settled ==
    IF call \in Setters /\ saved # bInfiniteSelect
    THEN pc' = "restore" /\ bInfiniteSelect' = saved
    ELSE pc' = "idle" /\ UNCHANGED bInfiniteSelect

(* pn53x_current_target_new.  The result of a listing is the first byte of   *)
(* the target's data, a count only when InListPassiveTarget found it.      *)
Take(t) ==
    /\ pc \in {"list", "raw", "dep"} /\ call # "list" /\ t \in Found
    /\ selected' = t /\ current_target' = t /\ Well /\ mistaken' = FALSE /\ took' = TRUE
    /\ \E r \in CASE call = "is_present" -> {"SUCCESS"} [] pc = "raw" -> {"0", "1"} [] OTHER -> {"1"} :
           ret' = r /\ Settled
    /\ UNCHANGED <<env, retries, bEasyFraming, local, calls>>

(* A target is listed, unless it is or its data starts with a zero, and     *)
(* that is the end; if there is room for more, it is let go and the next    *)
(* one looked for.                                                         *)
TakeListed(t) ==
    /\ pc \in {"list", "raw"} /\ call = "list" /\ t \in Found
    /\ selected' = t /\ Well /\ mistaken' = FALSE /\ took' = TRUE
    /\ \E zero \in {FALSE, pc = "raw"} :
           /\ asked' = IF zero THEN asked ELSE asked \cup {t}
           /\ IF zero \/ t \in asked \/ Cardinality(asked') = MaxListed
              THEN Settled /\ current_target' = t /\ ret' = "count"
              ELSE pc' = "deselect" /\ current_target' = None /\ UNCHANGED <<ret, bInfiniteSelect>>
    /\ UNCHANGED <<env, retries, bEasyFraming, call, nm, p, n, failures, saved, calls>>

(* Whether or not the target was let go.  Of some kinds only one can be      *)
(* found.                                                                  *)
NextListed ==
    /\ pc = "deselect" /\ call = "list"
    /\ \/ Well /\ selected' = None
       \/ Fault /\ selected' \in {None, selected}
    /\ IF nm \in Raw \cup {"FELICA", "JEWEL"} THEN Restore("count")
       ELSE pc' = "list" /\ UNCHANGED <<ret, bInfiniteSelect, current_target>>
    /\ UNCHANGED <<env, retries, bEasyFraming, local, calls, past>>

(* No target within the time given: poll_dep_target tries period by period.*)
NoDep ==
    /\ pc = "dep" /\ Found = {} /\ selected' = None /\ Well
    /\ IF call = "poll_dep" /\ p < MaxPolls
       THEN p' = p + 1 /\ UNCHANGED <<pc, ret, bInfiniteSelect, current_target>>
       ELSE Restore(IF call = "poll_dep" THEN "0" ELSE "error") /\ UNCHANGED p
    /\ UNCHANGED <<env, retries, bEasyFraming, call, asked, nm, n, failures, saved, calls, past>>

(* The chip has tried a few times. *)
NotFound ==
    /\ pc = "list" /\ retries = "few" /\ Found = {} /\ selected' = None /\ Well
    /\ Restore(CASE call = "is_present" -> "ETGRELEASED" [] call = "list" -> "count" [] OTHER -> "0")
    /\ UNCHANGED <<env, retries, bEasyFraming, local, calls, past>>

(* No target answered a raw request: the driver asks again, as long as      *)
(* bInfiniteSelect is set.                                                 *)
NotFoundRaw ==
    /\ pc = "raw" /\ Found = {} /\ selected' = None /\ Well
    /\ IF bInfiniteSelect THEN UNCHANGED <<pc, ret, bInfiniteSelect, current_target>> ELSE Restore(IF call = "list" THEN "count" ELSE "0")
    /\ UNCHANGED <<env, retries, bEasyFraming, local, calls, past>>

(* A listing of poll_target has its time limit: the poll goes on with its   *)
(* next modulation, MaxPolls times through them.                           *)
TimeOut ==
    /\ pc = "list" /\ call = "poll" /\ retries = "forever" /\ Found = {} /\ selected' = None /\ Well
    /\ IF n = Len(Polled) /\ p = MaxPolls
       THEN Restore("0") /\ UNCHANGED <<nm, p, n, bEasyFraming>>
       ELSE /\ n' = IF n < Len(Polled) THEN n + 1 ELSE 1
            /\ p' = IF n < Len(Polled) THEN p ELSE p + 1
            /\ SelectExt(Polled[n'])
            /\ UNCHANGED <<ret, current_target, bInfiniteSelect>>
    /\ UNCHANGED <<env, retries, call, asked, failures, saved, calls, past>>

(* The chip may have done what its lost answer would have said.  A check    *)
(* takes a host's time-out for the absence of the target, a list any error  *)
(* for its end.                                                            *)
ListFails ==
    /\ pc \in {"list", "raw", "dep"} /\ Fault /\ selected' \in {None, selected} \cup Found
    /\ \E r \in CASE call = "is_present" -> {"error", "ETGRELEASED"} [] call = "list" -> {"count"}
                 [] OTHER -> {"error"} : Restore(r)
    /\ mistaken' = TRUE
    /\ UNCHANGED <<env, retries, bEasyFraming, local, calls, took>>

Polls(t) == \E i \in DOMAIN Polled : Polled[i] = Modulation(Kind[t])

(* InAutoPoll: the PN532 goes through the modulations MaxPolls times.        *)
AutoPoll ==
    /\ pc = "auto" /\ pc' = "idle"
    /\ \/ /\ \E t \in present : Polls(t) /\ selected' = t /\ current_target' = t
          /\ ret' = "1" /\ Well /\ mistaken' = FALSE /\ took' = TRUE
       \/ /\ ~\E t \in present : Polls(t)
          /\ selected' = None /\ ret' = "error" /\ Well /\ UNCHANGED <<current_target, past>>
       \/ /\ selected' \in {None, selected} \cup {t \in present : Polls(t)}
          /\ ret' = "error" /\ Fault /\ mistaken' = TRUE /\ UNCHANGED <<current_target, took>>
    /\ UNCHANGED <<env, bInfiniteSelect, bEasyFraming, retries, local, calls>>

(* InDeselect; InRelease, of idle or at the end of a check. *)
Let ==
    /\ pc \in {"deselect", "release"} /\ call # "list" /\ pc' = "idle"
    /\ \/ /\ Well /\ selected' = None
          /\ ret' = IF call = "is_present" THEN "ETGRELEASED" ELSE "SUCCESS"
          /\ current_target' = IF call = "deselect" THEN current_target ELSE None
       \/ /\ Fault /\ selected' \in {None, selected}
          /\ ret' = IF call = "is_present" THEN "ETGRELEASED" ELSE "error"
          /\ current_target' = IF call = "is_present" THEN None ELSE current_target
    /\ UNCHANGED <<env, bInfiniteSelect, bEasyFraming, retries, local, calls, past>>

-----------------------------------------------------------------------------
(* The pings of target_is_present. *)

Kept == Kind[current_target]

(* The chip sends a ping to the target it selected, and only some pings say *)
(* which target they are for.                                              *)
Addressed == {"FELICA", "BI", "B2CT"}

Alive == selected \in present /\ (Kept \in Addressed => selected = current_target)

(* Framing goes back to easy after an unframed ping, whatever it was.        *)
Pinged(r) ==
    /\ Return(r)
    /\ bEasyFraming' = (bEasyFraming \/ Ping(Kept) = "unframed")

Again == UNCHANGED <<pc, ret, bEasyFraming, current_target>>

Answers ==
    /\ pc \in {"ping", "diagnose"} /\ Alive /\ Well /\ Pinged("SUCCESS") /\ UNCHANGED failures
    /\ UNCHANGED <<env, selected, bInfiniteSelect, retries, call, asked, nm, p, n, saved, calls, past>>

(* Mutant: silence counts as an answer on the last try. *)
SilentIsPresent ==
    /\ pc \in {"ping", "diagnose"} /\ ~Alive /\ Well /\ Pinged("SUCCESS") /\ UNCHANGED failures
    /\ UNCHANGED <<env, selected, bInfiniteSelect, retries, call, asked, nm, p, n, saved, calls, past>>

(* The chip reports that the target did not answer in time.  FeliCa is      *)
(* given more chances; a PN533 is told to release an ISO 14443-4 target.    *)
Silent ==
    /\ pc \in {"ping", "diagnose"} /\ ~Alive /\ Well
    /\ CASE Kept = "FELICA" ->
              /\ failures' = failures + 1
              /\ IF failures' < Tries(Kept) THEN Again ELSE Pinged("ETGRELEASED")
         [] pc = "diagnose" /\ Kept = "A4" ->
              pc' = "release" /\ UNCHANGED <<failures, ret, bEasyFraming, current_target>>
         [] OTHER -> Pinged("ETGRELEASED") /\ UNCHANGED failures
    /\ UNCHANGED <<env, selected, bInfiniteSelect, retries, call, asked, nm, p, n, saved, calls, past>>

(* Any other error: the target may be tired, it is asked again.  After a    *)
(* time-out of the host an ISO 14443-4 target is released as well.         *)
PingFails ==
    /\ pc \in {"ping", "diagnose"} /\ Fault /\ failures' = failures + 1
    /\ \/ failures' < Tries(Kept) /\ Again
       \/ failures' = Tries(Kept) /\ Pinged(IF Kept = "FELICA" THEN "ETGRELEASED" ELSE "error")
       \/ /\ failures' = Tries(Kept) /\ pc = "diagnose" /\ Kept = "A4"
          /\ pc' = "release" /\ UNCHANGED <<ret, bEasyFraming, current_target>>
    /\ UNCHANGED <<env, selected, bInfiniteSelect, retries, call, asked, nm, p, n, saved, calls, past>>

-----------------------------------------------------------------------------
(* A target comes, or goes and forgets that it was selected.                *)
ComeOrGo(t) ==
    /\ present' = (present \ {t}) \cup ({t} \ present)
    /\ selected' = IF selected = t THEN None ELSE selected
    /\ seen' = seen \cup present'
    /\ UNCHANGED <<type, Kind, current_target, bInfiniteSelect, bEasyFraming, retries, pc, local,
                   ret, calls, faults, failed, past>>

Exchange ==
    \/ End \/ SetAnswered \/ RestoreAnswered
    \/ \E t \in Target : Take(t) \/ TakeListed(t)
    \/ NextListed \/ NoDep \/ NotFound \/ NotFoundRaw \/ TimeOut \/ ListFails \/ AutoPoll \/ Let
    \/ Answers \/ Silent \/ PingFails

Next ==
    \/ \E k \in {Modulation(Kind[t]) : t \in Target} : Select(k) \/ List(k)
    \/ PollDep \/ Poll \/ Deselect \/ Idle
    \/ \E t \in Target \cup {None} : IsPresent(t)
    \/ Exchange
    \/ \E t \in Target : ComeOrGo(t)

Spec == Init /\ [][Next]_vars

-----------------------------------------------------------------------------
(* A check that says a target is present was answered by it: it was in the  *)
(* field during the call, even if others came meanwhile.  Not so after a    *)
(* listing failed on the host's side: the chip may have selected another,   *)
(* the driver still thinks of the one before, and the chip's target answers *)
(* a ping that does not say whom it is for.                                *)
PresentWasThere ==
    pc = "idle" /\ call = "is_present" /\ ret = "SUCCESS" /\ ~mistaken =>
        current_target # None /\ current_target \in seen

(* Polls, lists and checks leave the number of tries as they found it,    *)
(* in the copy and in the chip, when all their exchanges succeeded.        *)
TriesKept ==
    pc = "idle" /\ ~failed /\ calls > 0 =>
        bInfiniteSelect = saved /\ (faults = 0 => (retries = "forever" <=> bInfiniteSelect))

(* What a program may conclude from a call that succeeded: the target is    *)
(* there, and the next call starts as this one did.                        *)
CallsTold == PresentWasThere /\ TriesKept
=============================================================================
