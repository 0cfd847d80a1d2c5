---------------------------- MODULE MCDetection ----------------------------
(* Small instances of Detection. *)
EXTENDS Detection

CONSTANTS w1, w2, v1, v2, account, ip, user

Order == [k \in Keys |-> CASE k = account -> 1 [] k = ip -> 2 [] k = user -> 3]
Two == [k \in Keys |-> 2]
OneAndTwo == [k \in Keys |-> IF k = account THEN 1 ELSE 2]

Fail(i, t, ks) == [id |-> i, at |-> t, keys |-> ks, matches |-> ks]
\* The e-mail has an account by now: its own key is queued, the hash finds it as well.
Known(i, t) == [id |-> i, at |-> t, keys |-> {user}, matches |-> {user, account}]

(* Failures against an account, two at one moment, each a burst with the one before it,
   the last a window after the first; two of them come from one address. *)
Bursts ==
  {Fail(2, 0, {account, ip}), Fail(4, 0, {account}), Fail(3, 1, {account, ip}),
   Fail(1, 2, {account})}
(* Failures against an e-mail; the third is made when it has its account, and is a burst
   with the one before it and with the last, which are none without it. *)
Hashed ==
  {Fail(9, 0, {account}), Fail(10, 1, {account}), Known(11, 2), Fail(8, 3, {account})}
(* An account and an address nobody used for long; then the account is used again.  Were
   the address used again as well, the sweep and the writer could wait for each other. *)
Unused ==
  {Fail(7, 0, {account, ip}), Fail(5, 2, {account}), Fail(6, 6, {account})}
(* Both are used again. *)
OldKeys ==
  {Fail(1, 0, {account, ip}), Fail(2, 1, {account}), Fail(3, 3, {account, ip})}

(* One run asks both: whether bursts are found, and whether the sweep forgets*)
(* anything.  Each behaviour draws its failures from one of the mixes, and   *)
(* while bursts are looked for the sweep sleeps.                             *)
CONSTANT Mixes
AllMixes == {Bursts, Hashed, Unused}
OldMixes == {OldKeys}
MixedReports == UNION Mixes

VARIABLE mix

MixedInit == Init /\ mix \in Mixes
MixedNext ==
  /\ Next /\ UNCHANGED mix /\ reported' \subseteq mix
  /\ mix \in {Bursts, Hashed} => UNCHANGED sweep
MixedSpec ==
  /\ MixedInit /\ [][MixedNext]_<<vars, mix>>
  /\ \A w \in Writers : WF_vars(WriterStep(w))
  /\ \A v \in Workers : WF_vars(WorkerStep(v))
=============================================================================
