------------------------------ MODULE RaplDaemon ------------------------------
(***************************************************************************)
(* The node-local RAPL daemon (src/rapl-daemon/main.go, src/unnamed/      *)
(* part_000).  net/http runs powercapEndpoint in a goroutine of its own   *)
(* for every request, so two POST /powercap requests (Elektron's cap and  *)
(* recap goroutines both post to every host) run capNode at the same      *)
(* time, with no lock between them.  capNode walks the entries of         *)
(* /sys/class/powercap in the order ioutil.ReadDir returns them (sorted   *)
(* by name); one CapEntry step is the body of its loop for one entry.     *)
(*                                                                         *)
(* Data is abstracted to what the code tells apart: an entry is a model   *)
(* value with the ":"-separated fields of its name, the content of its    *)
(* constraint_0_max_power_uw (or Unreadable when reading or parsing it    *)
(* fails) and whether constraint_0_power_limit_uw exists.  Failures that *)
(* depend on the moment (ReadDir, WriteFile) are nondeterministic.        *)
(***************************************************************************)
EXTENDS Integers, Sequences, FiniteSets

CONSTANTS
  Requests,      \* the requests the daemon receives
  Payloads,      \* request bodies: a Percentage, or Malformed
  Malformed,     \* a body json.Decoder rejects
  Entries,       \* the entries of powercapDir, in name order
  Fields,        \* entry -> strings.Split(name, ":")
  MaxPowerUW,    \* entry -> value of constraint_0_max_power_uw, or Unreadable
  Unreadable,
  HasLimitFile,  \* entry -> whether constraint_0_power_limit_uw exists
  BootLimit      \* entry -> constraint_0_power_limit_uw before any request

Range(s) == {s[i] : i \in DOMAIN s}

ASSUME \A e \in Range(Entries) : MaxPowerUW[e] # Unreadable => MaxPowerUW[e] <= 21474836

RaplPrefixCPU == "intel-rapl"

NoWrite == -1

VARIABLES
  pc,         \* request -> "idle" | "capping" | "done"
  percentage, \* request -> payload.Percentage once decoded
  next,       \* request -> index in Entries of the entry capNode visits next
  status,     \* request -> HTTP status written, 0 before the response
  limit,      \* entry -> content of constraint_0_power_limit_uw
  lastPct,    \* history: entry -> Percentage of its last write, or NoWrite
  attempted   \* history: request -> entries it called capZone on

vars == <<pc, percentage, next, status, limit, lastPct, attempted>>

-----------------------------------------------------------------------------
(* The powercap value of part_000 line 51,                                *)
(*   uint64(math.Ceil(float64(maxPower) * (float64(percentage) / 100))),  *)
(* computed exactly with integers.  Let k = M*N/100.  When M*N is not a   *)
(* multiple of 100 the rounding errors are far too small to cross an      *)
(* integer and the result is the exact ceiling.  When it is, the result  *)
(* is k + 1 exactly when the double nearest N/100 lies above N/100 and    *)
(* M times that excess is more than half a unit in the last place of k,  *)
(* so that the product rounds up past k.  N/100 lies in [2^-t, 2^(1-t)); *)
(* its 53-bit significand is N*2^(52+t)/100, which rounds up when the     *)
(* remainder r of N*2^(52+t) modulo 100 exceeds 50 (it is never 50); the *)
(* excess is (100-r)/(100*2^(52+t)) and half an ulp of k is             *)
(* 2^(Log2Floor(k)-53).                                                   *)
RECURSIVE TwoPowMod100(_)
TwoPowMod100(s) == IF s = 0 THEN 1 ELSE (2 * TwoPowMod100(s - 1)) % 100

RECURSIVE Log2Floor(_)
Log2Floor(k) == IF k < 2 THEN 0 ELSE 1 + Log2Floor(k \div 2)

(* Mutant: float64(percentage / 100), the integer division done first.   *)
PowercapIntDiv(maxPower, pct) == maxPower * (pct \div 100)

Powercap(maxPower, pct) ==
  LET k == (maxPower * pct) \div 100
      t == CHOOSE j \in 0..7 : pct * 2^j >= 100 /\ (j = 0 \/ pct * 2^(j - 1) < 100)
      r == (pct * TwoPowMod100(52 + t)) % 100
  IN CASE (maxPower * pct) % 100 # 0 -> k + 1
       [] k = 0 -> 0
       [] r > 50 /\ (maxPower * (100 - r) - 1) \div 100 >= 2^(t + Log2Floor(k) - 1) -> k + 1
       [] OTHER -> k

(* Mutant: no range check.                                                *)
ValidPercentageAny(p) == TRUE

(* capNode's first check: 0 < percentage <= 100.                          *)
ValidPercentage(p) == ~(p <= 0 \/ p > 100)

(* The entries capNode caps: intel-rapl:X, not the sub-zones intel-rapl:X:Y *)
(* nor other control types.                                                *)
IsZone(e) == Len(Fields[e]) = 2 /\ Fields[e][1] = RaplPrefixCPU

-----------------------------------------------------------------------------
Init ==
  /\ pc = [r \in Requests |-> "idle"]
  /\ percentage = [r \in Requests |-> 0]
  /\ next = [r \in Requests |-> 1]
  /\ status = [r \in Requests |-> 0]
  /\ limit = [e \in Range(Entries) |-> BootLimit[e]]
  /\ lastPct = [e \in Range(Entries) |-> NoWrite]
  /\ attempted = [r \in Requests |-> {}]

(* powercapEndpoint up to capNode's loop: decode the body (400 on error), *)
(* check 0 < percentage <= 100 (400), ReadDir(base) (400 on error).        *)
Receive(r) ==
  /\ pc[r] = "idle"
  /\ \E p \in Payloads :
       LET accepted == IF p = Malformed THEN FALSE ELSE ValidPercentage(p)
       IN
       \/ /\ ~accepted
          /\ pc' = [pc EXCEPT ![r] = "done"]
          /\ status' = [status EXCEPT ![r] = 400]
          /\ UNCHANGED percentage
       \/ /\ accepted
          /\ \/ /\ pc' = [pc EXCEPT ![r] = "capping"]
                /\ UNCHANGED status
             \/ /\ pc' = [pc EXCEPT ![r] = "done"]      \* ReadDir failed
                /\ status' = [status EXCEPT ![r] = 400]
          /\ percentage' = [percentage EXCEPT ![r] = p]
  /\ UNCHANGED <<next, limit, lastPct, attempted>>

(* capZone(limitFile, powercap) on entry e for request r: WriteFile may    *)
(* fail, which is logged and skipped.                                      *)
CapZone(r, e) ==
  /\ attempted' = [attempted EXCEPT ![r] = @ \union {e}]
  /\ \/ /\ limit' = [limit EXCEPT ![e] = Powercap(MaxPowerUW[e], percentage[r])]
        /\ lastPct' = [lastPct EXCEPT ![e] = percentage[r]]
     \/ UNCHANGED <<limit, lastPct>>

(* Mutant: break instead of continue on a skipped entry.                  *)
CapEntryBreak(r) ==
  /\ pc[r] = "capping"
  /\ next[r] <= Len(Entries)
  /\ LET e == Entries[next[r]] IN
       IF IsZone(e) /\ MaxPowerUW[e] # Unreadable /\ HasLimitFile[e]
       THEN CapZone(r, e) /\ next' = [next EXCEPT ![r] = @ + 1]
       ELSE UNCHANGED <<limit, lastPct, attempted>>
            /\ next' = [next EXCEPT ![r] = Len(Entries) + 1]
  /\ UNCHANGED <<pc, percentage, status>>

(* One turn of capNode's loop over the directory entries: an entry that   *)
(* is not an intel-rapl zone, whose maximum cannot be read or whose limit *)
(* file does not exist is skipped (continue).                             *)
CapEntry(r) ==
  /\ pc[r] = "capping"
  /\ next[r] <= Len(Entries)
  /\ LET e == Entries[next[r]] IN
       IF IsZone(e) /\ MaxPowerUW[e] # Unreadable /\ HasLimitFile[e]
       THEN CapZone(r, e)
       ELSE UNCHANGED <<limit, lastPct, attempted>>
  /\ next' = [next EXCEPT ![r] = @ + 1]
  /\ UNCHANGED <<pc, percentage, status>>

(* capNode returns nil after the loop; the handler answers 200.           *)
Respond(r) ==
  /\ pc[r] = "capping"
  /\ next[r] > Len(Entries)
  /\ pc' = [pc EXCEPT ![r] = "done"]
  /\ status' = [status EXCEPT ![r] = 200]
  /\ UNCHANGED <<percentage, next, limit, lastPct, attempted>>

Next == \E r \in Requests : Receive(r) \/ CapEntry(r) \/ Respond(r)

Spec == Init /\ [][Next]_vars

-----------------------------------------------------------------------------
TypeOK ==
  /\ pc \in [Requests -> {"idle", "capping", "done"}]
  /\ percentage \in [Requests -> 0..100]
  /\ next \in [Requests -> 1..Len(Entries) + 1]
  /\ status \in [Requests -> {0, 200, 400}]
  /\ limit \in [Range(Entries) -> Nat]
  /\ lastPct \in [Range(Entries) -> {NoWrite} \union Int]
  /\ attempted \in [Requests -> SUBSET Range(Entries)]

(* Spec 4.7 and 8: a limit file the daemon has written holds the maximum   *)
(* scaled by a percentage some request carried in (0, 100], rounded up:   *)
(* never below ceil(M*N/100), never above the maximum, and (the float     *)
(* product at part_000:51 may round up once more) at most one microwatt   *)
(* above that ceiling; sub-zones, other control types and rejected        *)
(* requests leave their files as they were.  Concurrent requests may     *)
(* leave different zones at different percentages.                        *)
LimitsFromAcceptedPercentages ==
  \A e \in Range(Entries) :
    IF lastPct[e] = NoWrite
    THEN limit[e] = BootLimit[e]
    ELSE LET N == lastPct[e]
             M == MaxPowerUW[e]
             exact == (M * N + 99) \div 100
         IN /\ Len(Fields[e]) = 2 /\ Head(Fields[e]) = "intel-rapl"
            /\ N \in 1..100
            /\ exact <= limit[e] /\ limit[e] <= exact + 1 /\ limit[e] <= M

(* Spec 4.7: per-zone errors are logged and skipped and do not abort the   *)
(* request.  A request answered 400 has written no zone; one answered 200 *)
(* has tried to write every intel-rapl:X zone with a readable maximum and *)
(* a limit file, whatever failed before it in capNode's loop.             *)
AnswerMatchesEffect ==
  \A r \in Requests :
    /\ status[r] = 400 => attempted[r] = {}
    /\ status[r] = 200 =>
         \A e \in Range(Entries) :
           (Len(Fields[e]) = 2 /\ Head(Fields[e]) = "intel-rapl" /\ MaxPowerUW[e] # Unreadable
              /\ HasLimitFile[e]) => e \in attempted[r]

====
