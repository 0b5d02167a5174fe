---------------------------- MODULE PairingProofs ----------------------------
(***************************************************************************)
(* One code connects one device at a time, and only the device that claimed *)
(* it, for any number of claims, polls, codes and failures.                 *)
(***************************************************************************)
EXTENDS Pairing, TLAPS

\* A row of the table: codes that have not been made have none, and the device
\* it names claimed this very code.
RowOk(c) ==
  /\ c > codes => rows[c] = NoRow
  /\ rows[c].status = "claimed" => rows[c].device # 0
  /\ rows[c].device # 0 => rows[c].device \in 1 .. inserted /\ born[rows[c].device] = c
  /\ rows[c].status = "expired" => c \in late

\* A token: its code is never pending again, and its claim was the first.
TokenOk(t) ==
  /\ rows[t.code].status \in {"claimed", "expired"}
  /\ ~t.after

\* A claim that comes after a token does not get past the query.
ClaimOk(q) ==
  /\ q.stage # "idle" => q.code \in 1 .. codes
  /\ q.after => \E t \in tokens : t.code = q.code
  /\ q.stage \in {"expiring", "found", "inserted"} => ~q.after
  /\ q.stage = "expiring" => q.code \in late
  /\ q.stage = "inserted" => q.device \in 1 .. inserted /\ born[q.device] = q.code

\* A handler of the page: a poll that was answered names a device that claimed
\* the code it asks for.
PageOk(p) ==
  /\ p.code \in 0 .. codes
  /\ p.op = "check" \/ (p.op = "open" /\ p.stage = "answered") => p.code # 0
  /\ p.stage = "expiring" => p.op = "check" /\ p.code \in late
  /\ p.op = "check" /\ p.stage = "answered" => p.device \in 1 .. inserted /\ born[p.device] = p.code

PairOk(p) == p.device \in 1 .. inserted /\ born[p.device] = p.entry

\* The inductive invariant.
RowsOk   == \A c \in Codes : RowOk(c)
TokensOk == \A t \in tokens : TokenOk(t)
ClaimsOk == \A a \in Claims : ClaimOk(claim[a])
PagesOk  == \A h \in Handlers : PageOk(page[h])
PairsOk  == \A p \in paired : PairOk(p)

Consistent == RowsOk /\ TokensOk /\ ClaimsOk /\ PagesOk /\ PairsOk

Sound == TypeOK /\ Consistent /\ OrphansOnlyFromFailures

-----------------------------------------------------------------------------
(* What only grows keeps what is known. *)

\* No step takes back a code, a device, a deadline, a token or a failure.
Grows ==
  /\ codes' \in {codes, codes + 1}
  /\ inserted' \in {inserted, inserted + 1}
  /\ \A d \in 1 .. inserted : born'[d] = born[d]
  /\ late \subseteq late' /\ tokens \subseteq tokens'

LEMMA RowKept ==
  ASSUME TypeOK, Grows, NEW c \in Codes, RowOk(c), rows'[c] = rows[c]
  PROVE  RowOk(c)'
BY PairingAssumption DEF TypeOK, Grows, RowOk, Codes, Row, NoRow

LEMMA ClaimKept ==
  ASSUME TypeOK, Grows, NEW a \in Claims, ClaimOk(claim[a]), claim'[a] = claim[a]
  PROVE  ClaimOk(claim[a])'
<1>1. claim[a] \in Claim
  BY DEF TypeOK
<1> QED
  BY <1>1, PairingAssumption DEF TypeOK, Grows, ClaimOk, Claim

LEMMA PageKept ==
  ASSUME TypeOK, Grows, NEW h \in Handlers, PageOk(page[h]), page'[h] = page[h]
  PROVE  PageOk(page[h])'
<1>1. page[h] \in Page
  BY DEF TypeOK
<1> QED
  BY <1>1, PairingAssumption DEF TypeOK, Grows, PageOk, Page

LEMMA PairKept ==
  ASSUME TypeOK, Grows, NEW p \in paired, PairOk(p)
  PROVE  PairOk(p)'
BY PairingAssumption DEF TypeOK, Grows, PairOk

LEMMA IdleIsOk ==
  /\ NoClaim \in Claim /\ ClaimOk(NoClaim) /\ ClaimOk(NoClaim)'
  /\ NoClaim.stage = "idle"
BY PairingAssumption DEF NoClaim, Claim, ClaimOk

LEMMA NoPageIsOk ==
  ASSUME TypeOK
  PROVE  NoPage \in Page /\ PageOk(NoPage)
BY PairingAssumption DEF TypeOK, NoPage, Page, PageOk

\* A step that changes one claim and no page.
LEMMA ClaimStep ==
  ASSUME TypeOK, Consistent, Grows, NEW a \in Claims, ClaimOk(claim[a])',
         \A b \in Claims \ {a} : claim'[b] = claim[b],
         UNCHANGED <<page, paired>>,
         \A c \in Codes : rows'[c] = rows[c] \/ RowOk(c)', TokensOk'
  PROVE  Consistent'
<1>1. RowsOk'
  BY RowKept DEF Consistent, RowsOk
<1>2. ClaimsOk'
  BY ClaimKept DEF Consistent, ClaimsOk
<1>3. PagesOk'
  BY PageKept DEF Consistent, PagesOk
<1>4. PairsOk'
  BY PairKept DEF Consistent, PairsOk
<1> QED
  BY <1>1, <1>2, <1>3, <1>4 DEF Consistent

\* A step that changes one handler of the page and no claim.
LEMMA PageStep ==
  ASSUME TypeOK, Consistent, Grows, NEW h \in Handlers, PageOk(page[h])',
         \A g \in Handlers \ {h} : page'[g] = page[g],
         UNCHANGED claim, \A p \in paired' : p \in paired \/ PairOk(p)',
         \A c \in Codes : rows'[c] = rows[c] \/ RowOk(c)', TokensOk'
  PROVE  Consistent'
<1>1. RowsOk'
  BY RowKept DEF Consistent, RowsOk
<1>2. ClaimsOk'
  BY ClaimKept DEF Consistent, ClaimsOk
<1>3. PagesOk'
  BY PageKept DEF Consistent, PagesOk
<1>4. PairsOk'
  BY PairKept DEF Consistent, PairsOk
<1> QED
  BY <1>1, <1>2, <1>3, <1>4 DEF Consistent

\* A step that changes neither, but for codes that become late or are made.
LEMMA LocalStep ==
  ASSUME TypeOK, Consistent, UNCHANGED <<rows, inserted, born, claim, page, tokens, paired>>,
         codes' \in {codes, codes + 1}, late \subseteq late'
  PROVE  Consistent'
<1>0. Grows
  BY DEF Grows
<1>1. RowsOk'
  BY <1>0, RowKept DEF Consistent, RowsOk
<1>2. ClaimsOk'
  BY <1>0, ClaimKept DEF Consistent, ClaimsOk
<1>3. PagesOk'
  BY <1>0, PageKept DEF Consistent, PagesOk
<1>4. PairsOk'
  BY <1>0, PairKept DEF Consistent, PairsOk
<1>5. TokensOk'
  BY DEF Consistent, TokensOk, TokenOk
<1> QED
  BY <1>1, <1>2, <1>3, <1>4, <1>5 DEF Consistent

LEMMA FailsTyped ==
  ASSUME TypeOK, Fails
  PROVE  failures' \in 0 .. MaxFailures /\ failures' # 0
BY PairingAssumption DEF TypeOK, Fails

LEMMA SavedDevices ==
  ASSUME TypeOK, NEW entries \in SUBSET Entry, SavesDevices(entries)
  PROVE  /\ vault' \subseteq Entry /\ failures' \in 0 .. MaxFailures
         /\ failures' = 0 => failures = 0
BY FailsTyped DEF TypeOK, SavesDevices

\* With neither claims nor their table changed, no device is orphaned.
LEMMA NoNewOrphans ==
  ASSUME OrphansOnlyFromFailures, failures' = 0 => failures = 0,
         UNCHANGED <<inserted, claim, tokens>>,
         \A c \in Codes : rows'[c].status = "claimed" => rows'[c] = rows[c]
  PROVE  OrphansOnlyFromFailures'
BY DEF OrphansOnlyFromFailures

-----------------------------------------------------------------------------
(* Claims *)

LEMMA ClaimNextSound ==
  ASSUME Sound, NEW a \in Claims, ClaimNext(a)
  PROVE  Sound'
<1> USE PairingAssumption
<1>s. TypeOK /\ Consistent /\ OrphansOnlyFromFailures
  BY DEF Sound
<1>c. claim[a] \in Claim /\ ClaimOk(claim[a])
  BY <1>s DEF TypeOK, Consistent, ClaimsOk
<1>n. NoClaim \in Claim /\ ClaimOk(NoClaim)' /\ NoClaim.stage = "idle"
  BY IdleIsOk
<1>t. TokensOk /\ \A t \in tokens : t.code \in Codes /\ t.device \in Devices
  BY <1>s DEF Consistent, TypeOK
<1>r. ASSUME claim[a].stage # "idle"
      PROVE  claim[a].code \in Codes /\ claim[a].code <= codes /\ RowOk(claim[a].code)
             /\ rows[claim[a].code] \in Row \cup {NoRow}
  BY <1>s, <1>c, <1>r DEF TypeOK, Consistent, RowsOk, ClaimOk, Codes, Claim
<1>1. ASSUME NEW c \in 1 .. codes, Claimant(a, c) PROVE Sound'
  <2>1. /\ claim[a].stage = "idle"
        /\ claim' = [claim EXCEPT ![a] =
             [stage |-> "sent", code |-> c, device |-> 0, after |-> \E t \in tokens : t.code = c]]
        /\ UNCHANGED <<signedIn, rows, devices, inserted, born, late, vault, dialog, page, asks, codes,
                       failures, tokens, paired>>
    BY <1>1 DEF Claimant, table, local, pages
  <2>2. /\ claim'[a].stage = "sent" /\ claim'[a].code = c
        /\ claim'[a].after <=> \E t \in tokens : t.code = c
        /\ \A b \in Claims \ {a} : claim'[b] = claim[b]
    BY <1>s, <2>1 DEF TypeOK
  <2>3. ClaimOk(claim[a])'
    BY <2>1, <2>2 DEF ClaimOk
  <2>4. claim' \in [Claims -> Claim]
    BY <1>s, <2>1 DEF TypeOK, Claim, Codes
  <2>5. TypeOK'
    BY <1>s, <2>1, <2>4 DEF TypeOK
  <2>6. Consistent'
    <3>1. Grows /\ TokensOk'
      BY <1>t, <2>1 DEF Grows, TokensOk, TokenOk
    <3> QED
      BY <1>s, <2>1, <2>2, <2>3, <3>1, ClaimStep
  <2>7. OrphansOnlyFromFailures'
    BY <1>s, <2>1, <2>2 DEF OrphansOnlyFromFailures
  <2> QED
    BY <2>5, <2>6, <2>7 DEF Sound
<1>2. ASSUME ClaimFinds(a) PROVE Sound'
  <2>1. /\ claim[a].stage = "sent"
        /\ UNCHANGED <<signedIn, rows, devices, inserted, born, late, vault, dialog, page, asks, codes,
                       failures, tokens, paired>>
        /\ \A b \in Claims \ {a} : claim'[b] = claim[b]
    BY <1>2, <1>s DEF ClaimFinds, table, local, pages, TypeOK
  <2>2. claim' = [claim EXCEPT ![a] =
          IF rows[claim[a].code].status # "pending" THEN NoClaim
          ELSE [claim[a] EXCEPT !.stage = IF claim[a].code \in late THEN "expiring" ELSE "found"]]
    BY <1>2 DEF ClaimFinds
  <2>3. claim' \in [Claims -> Claim] /\ ClaimOk(claim[a])'
    <3>1. CASE rows[claim[a].code].status # "pending"
      BY <1>s, <1>n, <2>2, <3>1 DEF TypeOK
    <3>2. CASE rows[claim[a].code].status = "pending"
      <4>1. ~claim[a].after
        BY <1>c, <1>t, <3>2 DEF ClaimOk, TokensOk, TokenOk
      <4> DEFINE q == [claim[a] EXCEPT !.stage = IF claim[a].code \in late THEN "expiring" ELSE "found"]
      <4>2. /\ q \in Claim /\ q.code = claim[a].code /\ q.after = claim[a].after
            /\ q.stage \in {"expiring", "found"} /\ (q.stage = "expiring" => q.code \in late)
        BY <1>c DEF Claim
      <4>3. claim'[a] = q /\ claim' \in [Claims -> Claim]
        BY <1>s, <2>2, <3>2, <4>2 DEF TypeOK
      <4> HIDE DEF q
      <4>4. ClaimOk(claim[a])'
        BY <1>c, <2>1, <4>1, <4>2, <4>3 DEF ClaimOk
      <4> QED
        BY <4>3, <4>4
    <3> QED
      BY <3>1, <3>2
  <2>4. claim'[a].stage # "inserted"
    BY <1>s, <1>c, <1>n, <2>2 DEF TypeOK, Claim
  <2>5. TypeOK'
    BY <1>s, <2>1, <2>3 DEF TypeOK
  <2>6. Consistent'
    <3>1. Grows /\ TokensOk'
      BY <1>t, <2>1 DEF Grows, TokensOk, TokenOk
    <3> QED
      BY <1>s, <2>1, <2>3, <3>1, ClaimStep
  <2>7. OrphansOnlyFromFailures'
    BY <1>s, <2>1 DEF OrphansOnlyFromFailures
  <2> QED
    BY <2>5, <2>6, <2>7 DEF Sound
<1>3. ASSUME ClaimExpires(a) PROVE Sound'
  <2>0. PICK c \in Codes : c = claim[a].code
    BY <1>3, <1>r DEF ClaimExpires
  <2>1. /\ claim[a].stage = "expiring" /\ claim' = [claim EXCEPT ![a] = NoClaim]
        /\ rows' = [rows EXCEPT ![c].status = "expired"]
        /\ UNCHANGED <<signedIn, devices, inserted, born, late, vault, dialog, page, asks, codes,
                       failures, tokens, paired>>
    BY <1>3, <2>0 DEF ClaimExpires, history, local, pages
  <2>2. /\ c <= codes /\ c \in late /\ RowOk(c) /\ rows[c] \in Row \cup {NoRow}
        /\ rows[c].device \in 0 .. MaxDevices
    BY <1>c, <1>r, <2>0, <2>1 DEF ClaimOk, Row, NoRow
  <2>3. /\ rows'[c].status = "expired" /\ rows'[c].device = rows[c].device
        /\ \A d \in Codes \ {c} : rows'[d] = rows[d]
        /\ rows' \in [Codes -> Row \cup {NoRow}]
    BY <1>s, <2>1, <2>2 DEF TypeOK, Row, NoRow
  <2>4. claim'[a] = NoClaim /\ claim' \in [Claims -> Claim] /\ \A b \in Claims \ {a} : claim'[b] = claim[b]
    BY <1>s, <1>n, <2>1 DEF TypeOK
  <2>5. TypeOK'
    BY <1>s, <2>1, <2>3, <2>4 DEF TypeOK
  <2>6. Consistent'
    <3>1. Grows /\ RowOk(c)'
      BY <1>s, <2>1, <2>2, <2>3 DEF Grows, RowOk, TypeOK, Codes
    <3>2. TokensOk'
      BY <1>t, <2>1, <2>3 DEF TokensOk, TokenOk
    <3> QED
      BY <1>s, <1>n, <2>1, <2>3, <2>4, <3>1, <3>2, ClaimStep
  <2>7. OrphansOnlyFromFailures'
    BY <1>s, <2>1, <2>2, <2>3, <2>4 DEF OrphansOnlyFromFailures
  <2> QED
    BY <2>5, <2>6, <2>7 DEF Sound
<1>d. ASSUME claim[a].stage = "found", NewDevice(claim[a].code)
      PROVE  /\ inserted' = inserted + 1 /\ inserted' \in Devices
             /\ born' \in [Devices -> 0 .. MaxCodes] /\ born'[inserted'] = claim[a].code
             /\ \A d \in 1 .. inserted : born'[d] = born[d]
             /\ devices' \subseteq 1 .. inserted'
  <2>1. inserted \in Nat /\ inserted' = inserted + 1 /\ inserted' \in Devices /\ claim[a].code \in 0 .. MaxCodes
    BY <1>s, <1>d, <1>r DEF TypeOK, NewDevice, Devices, Codes
  <2>2. born' = [born EXCEPT ![inserted'] = claim[a].code] /\ devices' = devices \cup {inserted'}
    BY <1>d DEF NewDevice
  <2>3. \A d \in 1 .. inserted : d \in Devices /\ d # inserted'
    BY <2>1 DEF Devices
  <2> QED
    BY <1>s, <2>1, <2>2, <2>3 DEF TypeOK
<1>4. ASSUME ClaimInserts(a) PROVE Sound'
  <2>1. /\ claim[a].stage = "found" /\ NewDevice(claim[a].code)
        /\ claim' = [claim EXCEPT ![a].stage = "inserted", ![a].device = inserted']
        /\ UNCHANGED <<signedIn, rows, late, vault, dialog, page, asks, codes, failures, tokens, paired>>
    BY <1>4 DEF ClaimInserts, local, pages
  <2>2. /\ inserted' = inserted + 1 /\ inserted' \in Devices
        /\ born' \in [Devices -> 0 .. MaxCodes] /\ born'[inserted'] = claim[a].code
        /\ \A d \in 1 .. inserted : born'[d] = born[d]
        /\ devices' \subseteq 1 .. inserted'
    BY <1>d, <2>1
  <2>q. [claim[a] EXCEPT !.stage = "inserted", !.device = inserted'] \in Claim
    <3>1. inserted' \in 0 .. MaxDevices
      BY <2>2 DEF Devices
    <3> QED
      BY <1>c, <3>1 DEF Claim
  <2>3. /\ claim' \in [Claims -> Claim] /\ \A b \in Claims \ {a} : claim'[b] = claim[b]
        /\ claim'[a] = [claim[a] EXCEPT !.stage = "inserted", !.device = inserted']
    BY <1>s, <2>1, <2>q DEF TypeOK
  <2>3a. /\ claim'[a].stage = "inserted" /\ claim'[a].device = inserted' /\ claim'[a].code = claim[a].code
         /\ claim'[a].after = claim[a].after
    BY <1>c, <2>3 DEF Claim
  <2>4. ClaimOk(claim[a])'
    BY <1>s, <1>c, <2>1, <2>2, <2>3a DEF TypeOK, ClaimOk
  <2>5. TypeOK'
    <3>1. inserted' \in 0 .. MaxDevices
      BY <2>2 DEF Devices
    <3> QED
      BY <1>s, <2>1, <2>2, <2>3, <3>1 DEF TypeOK
  <2>6. Consistent'
    <3>1. Grows /\ TokensOk'
      BY <1>t, <2>1, <2>2 DEF Grows, TokensOk, TokenOk
    <3> QED
      BY <1>s, <2>1, <2>3, <2>4, <3>1, ClaimStep
  <2>7. OrphansOnlyFromFailures'
    <3>1. \A d \in 1 .. inserted' : d \in 1 .. inserted \/ d = inserted'
      BY <1>s, <2>2 DEF TypeOK
    <3> QED
      BY <1>s, <2>1, <2>3, <2>3a, <3>1 DEF OrphansOnlyFromFailures
  <2> QED
    BY <2>5, <2>6, <2>7 DEF Sound
<1>5. ASSUME InsertRepeats(a) PROVE Sound'
  <2>1. /\ claim[a].stage = "found" /\ NewDevice(claim[a].code) /\ Fails
        /\ UNCHANGED <<signedIn, rows, claim, late, vault, dialog, page, asks, codes, tokens, paired>>
    BY <1>5 DEF InsertRepeats, local, pages
  <2>2. /\ inserted' = inserted + 1 /\ inserted' \in Devices
        /\ born' \in [Devices -> 0 .. MaxCodes]
        /\ \A d \in 1 .. inserted : born'[d] = born[d]
        /\ devices' \subseteq 1 .. inserted'
    BY <1>d, <2>1
  <2>3. failures' \in 0 .. MaxFailures /\ failures' # 0
    BY <1>s, <2>1, FailsTyped
  <2>5. TypeOK'
    <3>1. inserted' \in 0 .. MaxDevices
      BY <2>2 DEF Devices
    <3> QED
      BY <1>s, <2>1, <2>2, <2>3, <3>1 DEF TypeOK
  <2>6. Consistent'
    <3>1. Grows /\ TokensOk'
      BY <1>t, <2>1, <2>2 DEF Grows, TokensOk, TokenOk
    <3>2. ClaimOk(claim[a])'
      BY <1>s, <1>c, <2>1, <3>1, ClaimKept
    <3> QED
      BY <1>s, <2>1, <3>1, <3>2, ClaimStep
  <2> QED
    BY <2>3, <2>5, <2>6 DEF Sound, OrphansOnlyFromFailures
<1>m. ASSUME NEW c \in Codes, c = claim[a].code, claim[a].stage = "inserted",
             rows' = [rows EXCEPT ![c] = [status |-> "claimed", device |-> claim[a].device]],
             UNCHANGED <<codes, inserted, born, late>>
      PROVE  /\ rows' \in [Codes -> Row \cup {NoRow}] /\ RowOk(c)'
             /\ rows'[c].status = "claimed" /\ rows'[c].device = claim[a].device
             /\ \A d \in Codes \ {c} : rows'[d] = rows[d]
  <2>1. c <= codes /\ claim[a].device \in 1 .. inserted /\ born[claim[a].device] = c
    BY <1>c, <1>m, <1>r DEF ClaimOk
  <2>2. [status |-> "claimed", device |-> claim[a].device] \in Row
    BY <1>c DEF Row, Claim
  <2>3. /\ rows' \in [Codes -> Row \cup {NoRow}]
        /\ rows'[c].status = "claimed" /\ rows'[c].device = claim[a].device
        /\ \A d \in Codes \ {c} : rows'[d] = rows[d]
    BY <1>s, <1>m, <2>2 DEF TypeOK
  <2>4. c \in Nat /\ codes \in Nat /\ claim[a].device # 0
    BY <1>s, <2>1 DEF TypeOK, Codes
  <2>5. RowOk(c)'
    BY <1>m, <2>1, <2>3, <2>4 DEF RowOk
  <2> QED
    BY <2>3, <2>5
<1>6. ASSUME ClaimMarks(a) PROVE Sound'
  <2>0. PICK c \in Codes : c = claim[a].code
    BY <1>6, <1>r DEF ClaimMarks
  <2> DEFINE token == [code |-> c, device |-> claim[a].device, after |-> claim[a].after]
  <2>1. /\ claim[a].stage = "inserted" /\ claim' = [claim EXCEPT ![a] = NoClaim]
        /\ rows' = [rows EXCEPT ![c] = [status |-> "claimed", device |-> claim[a].device]]
        /\ tokens' = tokens \cup {token}
        /\ UNCHANGED <<signedIn, devices, inserted, late, vault, dialog, page, asks, codes, failures,
                       born, paired>>
    BY <1>6, <2>0 DEF ClaimMarks, local, pages
  <2>2. /\ rows' \in [Codes -> Row \cup {NoRow}] /\ RowOk(c)'
        /\ rows'[c].status = "claimed" /\ rows'[c].device = claim[a].device
        /\ \A d \in Codes \ {c} : rows'[d] = rows[d]
    BY <1>m, <2>0, <2>1
  <2>3. /\ claim'[a] = NoClaim /\ claim' \in [Claims -> Claim]
        /\ \A b \in Claims \ {a} : claim'[b] = claim[b]
    BY <1>s, <1>n, <2>1 DEF TypeOK
  <2>4. token \in [code : Codes, device : Devices, after : BOOLEAN] /\ token.after = FALSE
    <3>1. claim[a].device \in 1 .. inserted /\ ~claim[a].after /\ claim[a].after \in BOOLEAN
      BY <1>c, <2>1 DEF ClaimOk, Claim
    <3>2. claim[a].device \in Devices
      BY <1>s, <3>1 DEF TypeOK, Devices
    <3> QED
      BY <3>1, <3>2
  <2>5. TypeOK'
    BY <1>s, <2>1, <2>2, <2>3, <2>4 DEF TypeOK
  <2>6. Consistent'
    <3>1. Grows
      BY <2>1 DEF Grows
    <3>2. TokensOk'
      <4>1. \A t \in tokens : t.code \in Codes /\ rows'[t.code].status \in {"claimed", "expired"} /\ ~t.after
        BY <1>t, <2>2 DEF TokensOk, TokenOk
      <4>2. token.code = c
        OBVIOUS
      <4> HIDE DEF token
      <4> QED
        BY <2>1, <2>2, <2>4, <4>1, <4>2 DEF TokensOk, TokenOk
    <3> QED
      BY <1>s, <1>n, <2>1, <2>2, <2>3, <3>1, <3>2, ClaimStep
  <2>7. OrphansOnlyFromFailures'
    <3>1. token \in tokens' /\ token.code = c /\ token.device = claim[a].device
      BY <2>1
    <3> HIDE DEF token
    <3> SUFFICES ASSUME failures = 0 PROVE
          /\ \A d \in 1 .. inserted :
               \/ \E t \in tokens' : t.device = d
               \/ \E b \in Claims : claim'[b].stage = "inserted" /\ claim'[b].device = d
          /\ \A d \in Codes : rows'[d].status = "claimed" =>
               \E t \in tokens' : t.code = d /\ t.device = rows'[d].device
      BY <2>1 DEF OrphansOnlyFromFailures
    <3>2. \A d \in 1 .. inserted :
               \/ \E t \in tokens' : t.device = d
               \/ \E b \in Claims : claim'[b].stage = "inserted" /\ claim'[b].device = d
      BY <1>s, <2>1, <2>3, <3>1 DEF OrphansOnlyFromFailures
    <3>3. \A d \in Codes : rows'[d].status = "claimed" =>
               \E t \in tokens' : t.code = d /\ t.device = rows'[d].device
      BY <1>s, <2>1, <2>2, <3>1 DEF OrphansOnlyFromFailures
    <3> QED
      BY <3>2, <3>3
  <2> QED
    BY <2>5, <2>6, <2>7 DEF Sound
<1>7. ASSUME ClaimFails(a) PROVE Sound'
  <2>0. PICK c \in Codes : c = claim[a].code
    BY <1>7, <1>r DEF ClaimFails
  <2>1. /\ claim[a].stage # "idle" /\ Fails /\ claim' = [claim EXCEPT ![a] = NoClaim]
        /\ \/ UNCHANGED rows
           \/ /\ claim[a].stage = "inserted"
              /\ rows' = [rows EXCEPT ![c] = [status |-> "claimed", device |-> claim[a].device]]
        /\ UNCHANGED <<signedIn, devices, inserted, late, vault, dialog, page, asks, codes, tokens, born, paired>>
    BY <1>7, <2>0 DEF ClaimFails, history, local, pages
  <2>2. /\ rows' \in [Codes -> Row \cup {NoRow}]
        /\ \A d \in Codes : rows'[d] = rows[d] \/ (RowOk(d)' /\ rows'[d].status = "claimed")
    <3>1. CASE UNCHANGED rows
      BY <1>s, <3>1 DEF TypeOK
    <3>2. CASE rows' = [rows EXCEPT ![c] = [status |-> "claimed", device |-> claim[a].device]]
                /\ claim[a].stage = "inserted"
      <4>1. /\ rows' \in [Codes -> Row \cup {NoRow}] /\ RowOk(c)'
            /\ rows'[c].status = "claimed" /\ \A d \in Codes \ {c} : rows'[d] = rows[d]
        BY <1>m, <2>0, <2>1, <3>2
      <4> QED
        BY <4>1
    <3> QED
      BY <2>1, <3>1, <3>2
  <2>3. claim' \in [Claims -> Claim] /\ claim'[a] = NoClaim /\ \A b \in Claims \ {a} : claim'[b] = claim[b]
    BY <1>s, <1>n, <2>1 DEF TypeOK
  <2>4. failures' \in 0 .. MaxFailures /\ failures' # 0
    BY <1>s, <2>1, FailsTyped
  <2>5. TypeOK'
    BY <1>s, <2>1, <2>2, <2>3, <2>4 DEF TypeOK
  <2>6. Consistent'
    <3>1. Grows
      BY <2>1 DEF Grows
    <3>2. TokensOk'
      BY <1>t, <2>1, <2>2 DEF TokensOk, TokenOk
    <3> QED
      BY <1>s, <1>n, <2>1, <2>2, <2>3, <3>1, <3>2, ClaimStep
  <2> QED
    BY <2>4, <2>5, <2>6 DEF Sound, OrphansOnlyFromFailures
<1> QED
  BY <1>1, <1>2, <1>3, <1>4, <1>5, <1>6, <1>7 DEF ClaimNext
-----------------------------------------------------------------------------
(* The page *)

LEMMA EntriesTyped ==
  /\ \A c \in Codes : Pending(c) \in Entry
  /\ \A e \in Entry : Connected(e) \in Entry
  /\ \A e \in Entry : \A d \in Devices : RenamedTo(e, d) \in Entry
<1>1. \A c \in Codes : Pending(c) \in Entry
  BY PairingAssumption DEF Pending, Entry, Codes
<1>2. \A e \in Entry : Connected(e) \in Entry
  <2>1. 0 \in 0 .. MaxCodes
    BY PairingAssumption
  <2> QED
    BY <2>1 DEF Connected, Entry
<1>3. \A e \in Entry : \A d \in Devices : RenamedTo(e, d) \in Entry
  <2>1. 0 \in 0 .. MaxCodes
    BY PairingAssumption
  <2> QED
    BY <2>1 DEF RenamedTo, Entry
<1> QED
  BY <1>1, <1>2, <1>3

\* What a handler of the page that calls the API starts with.
LEMMA AsksSound ==
  ASSUME Sound, NEW h \in Handlers, NEW op \in {"open", "check", "remove"}, NEW gone \in SUBSET Entry,
         NEW code \in 0 .. codes, op = "check" => code # 0, Asks(h, op, code, gone),
         UNCHANGED <<signedIn, table, late, claim, local, codes, failures, tokens, paired>>
  PROVE  Sound'
<1> USE PairingAssumption
<1>s. TypeOK /\ Consistent /\ OrphansOnlyFromFailures
  BY DEF Sound
<1> DEFINE p == [op |-> op, stage |-> "asked", seen |-> vault, code |-> code, gone |-> gone, device |-> 0]
<1>1. /\ page' = [page EXCEPT ![h] = p] /\ asks' \in 0 .. MaxAsks
      /\ UNCHANGED <<signedIn, rows, devices, inserted, born, late, claim, vault, dialog, codes, failures,
                     tokens, paired>>
  BY <1>s DEF Asks, TypeOK, table, local
<1>2. p \in Page /\ p.op = op /\ p.stage = "asked" /\ p.code = code
  BY <1>s DEF TypeOK, Page
<1> HIDE DEF p
<1>3. page' \in [Handlers -> Page] /\ page'[h] = p /\ \A g \in Handlers \ {h} : page'[g] = page[g]
  BY <1>s, <1>1, <1>2 DEF TypeOK
<1>4. TypeOK'
  BY <1>s, <1>1, <1>3 DEF TypeOK
<1>5. Consistent'
  <2>1. Grows /\ TokensOk'
    BY <1>s, <1>1 DEF Grows, Consistent, TokensOk, TokenOk
  <2>2. PageOk(page[h])'
    BY <1>1, <1>2, <1>3 DEF PageOk
  <2> QED
    BY <1>s, <1>1, <1>3, <2>1, <2>2, PageStep
<1>6. OrphansOnlyFromFailures'
  BY <1>s, <1>1 DEF OrphansOnlyFromFailures
<1> QED
  BY <1>4, <1>5, <1>6 DEF Sound

\* A handler of the page that goes on or ends, and may save devices and change
\* the dialog, without touching the table but for devices it revokes.
LEMMA PageMovesSound ==
  ASSUME Sound, NEW h \in Handlers, NEW p \in Page, PageOk(p), page' = [page EXCEPT ![h] = p],
         vault' \subseteq Entry, dialog' \in 0 .. codes, devices' \subseteq devices,
         failures' \in 0 .. MaxFailures, failures' = 0 => failures = 0,
         UNCHANGED <<signedIn, asks, rows, inserted, born, late, claim, codes, tokens>>,
         paired' \subseteq [entry : Codes, device : Devices], \A q \in paired' : q \in paired \/ PairOk(q)
  PROVE  Sound'
<1> USE PairingAssumption
<1>s. TypeOK /\ Consistent /\ OrphansOnlyFromFailures
  BY DEF Sound
<1>1. page' \in [Handlers -> Page] /\ page'[h] = p /\ \A g \in Handlers \ {h} : page'[g] = page[g]
  BY <1>s DEF TypeOK
<1>2. TypeOK'
  BY <1>s, <1>1 DEF TypeOK
<1>3. Consistent'
  <2>1. Grows /\ TokensOk'
    BY <1>s DEF Grows, Consistent, TokensOk, TokenOk
  <2>2. PageOk(page[h])'
    BY <1>1 DEF PageOk
  <2>3. \A q \in paired' : q \in paired \/ PairOk(q)'
    BY DEF PairOk
  <2> QED
    BY <1>s, <1>1, <2>1, <2>2, <2>3, PageStep
<1>4. OrphansOnlyFromFailures'
  BY <1>s, NoNewOrphans
<1> QED
  BY <1>2, <1>3, <1>4 DEF Sound

LEMMA PageEndsSound ==
  ASSUME Sound, NEW h \in Handlers, page' = [page EXCEPT ![h] = NoPage],
         vault' \subseteq Entry, dialog' \in 0 .. codes, devices' \subseteq devices,
         failures' \in 0 .. MaxFailures, failures' = 0 => failures = 0,
         UNCHANGED <<signedIn, asks, rows, inserted, born, late, claim, codes, tokens, paired>>
  PROVE  Sound'
<1>1. NoPage \in Page /\ PageOk(NoPage)
  BY NoPageIsOk DEF Sound
<1>2. paired' \subseteq [entry : Codes, device : Devices]
  BY DEF Sound, TypeOK
<1> QED
  BY <1>1, <1>2, PageMovesSound

LEMMA PageNextSound ==
  ASSUME Sound, NEW h \in Handlers, PageNext(h)
  PROVE  Sound'
<1> USE PairingAssumption
<1>s. TypeOK /\ Consistent /\ OrphansOnlyFromFailures
  BY DEF Sound
<1>p. page[h] \in Page /\ PageOk(page[h])
  BY <1>s DEF TypeOK, Consistent, PagesOk
<1>n. NoPage \in Page /\ PageOk(NoPage)
  BY <1>s, NoPageIsOk
<1>f. /\ page[h].code \in 0 .. codes /\ page[h].seen \subseteq Entry /\ page[h].gone \subseteq Entry
      /\ page[h].code # 0 => page[h].code \in Codes
      /\ vault \subseteq Entry /\ dialog \in 0 .. codes /\ failures \in 0 .. MaxFailures
      /\ codes \in 0 .. MaxCodes
  BY <1>s, <1>p DEF TypeOK, PageOk, Page, Codes
<1>1. ASSUME OpensPairing(h) PROVE Sound'
  <2>1. 0 \in 0 .. codes
    BY <1>f
  <2> QED
    BY <1>1, <2>1, AsksSound DEF OpensPairing
<1>2. ASSUME ChecksPairing(h) PROVE Sound'
  <2>1. PICK code \in 0 .. codes : code = dialog /\ code # 0
    BY <1>2, <1>f DEF ChecksPairing
  <2> QED
    BY <1>2, <2>1, AsksSound DEF ChecksPairing
<1>3. ASSUME NEW e \in vault, RemovesDevice(h, e) PROVE Sound'
  <2>1. 0 \in 0 .. codes /\ {e} \in SUBSET Entry
    BY <1>f
  <2> QED
    BY <1>3, <2>1, AsksSound DEF RemovesDevice
<1>4. ASSUME StartInserts(h) PROVE Sound'
  <2>0. PICK c \in Codes : c = codes + 1 /\ c = codes'
    BY <1>4, <1>f DEF StartInserts, Codes
  <2>1. /\ page[h].op = "open" /\ page[h].stage = "asked" /\ codes < MaxCodes
        /\ rows' = [rows EXCEPT ![c] = [status |-> "pending", device |-> 0]]
        /\ UNCHANGED <<signedIn, asks, devices, inserted, born, late, claim, vault, dialog, tokens, paired>>
    BY <1>4, <2>0 DEF StartInserts, local, history
  <2>2. \/ page' = [page EXCEPT ![h].stage = "answered", ![h].code = c] /\ UNCHANGED failures
        \/ page' = [page EXCEPT ![h] = NoPage] /\ Fails
    BY <1>4, <2>0 DEF StartInserts
  <2>3. [status |-> "pending", device |-> 0] \in Row
    BY DEF Row
  <2>4. /\ rows' \in [Codes -> Row \cup {NoRow}]
        /\ rows'[c].status = "pending" /\ rows'[c].device = 0
        /\ \A d \in Codes \ {c} : rows'[d] = rows[d]
    BY <1>s, <2>1, <2>3 DEF TypeOK
  <2>5. rows[c].status = "none"
    BY <1>s, <1>f, <2>0 DEF Consistent, RowsOk, RowOk, NoRow
  <2>6. /\ page' \in [Handlers -> Page] /\ PageOk(page[h])'
        /\ \A g \in Handlers \ {h} : page'[g] = page[g]
    <3>1. CASE page' = [page EXCEPT ![h] = NoPage]
      <4>1. page'[h] = NoPage /\ page' \in [Handlers -> Page] /\ \A g \in Handlers \ {h} : page'[g] = page[g]
        BY <1>s, <1>n, <3>1 DEF TypeOK
      <4>2. 0 \in 0 .. codes'
        BY <1>f, <2>0
      <4> QED
        BY <4>1, <4>2 DEF PageOk, NoPage
    <3>2. CASE page' = [page EXCEPT ![h].stage = "answered", ![h].code = c]
      <4>1. c \in 0 .. MaxCodes /\ c \in 0 .. codes' /\ c # 0
        BY <1>f, <2>0 DEF Codes
      <4>2. [page[h] EXCEPT !.stage = "answered", !.code = c] \in Page
        BY <1>p, <4>1 DEF Page
      <4>3. /\ page'[h] = [page[h] EXCEPT !.stage = "answered", !.code = c]
            /\ page' \in [Handlers -> Page] /\ \A g \in Handlers \ {h} : page'[g] = page[g]
        BY <1>s, <3>2, <4>2 DEF TypeOK
      <4>4. page'[h].op = "open" /\ page'[h].stage = "answered" /\ page'[h].code = c
        BY <1>p, <2>1, <4>3 DEF Page
      <4> QED
        BY <4>1, <4>3, <4>4 DEF PageOk
    <3> QED
      BY <2>2, <3>1, <3>2
  <2>7. failures' \in 0 .. MaxFailures /\ (failures' = 0 => failures = 0)
    BY <1>s, <1>f, <2>2, FailsTyped
  <2>8. codes' \in 0 .. MaxCodes /\ dialog' \in 0 .. codes'
    BY <1>f, <2>0, <2>1
  <2>9. TypeOK'
    BY <1>s, <2>1, <2>4, <2>6, <2>7, <2>8 DEF TypeOK
  <2>10. Consistent'
    <3>1. Grows
      BY <2>0, <2>1 DEF Grows
    <3>2. RowOk(c)'
      BY <2>0, <2>4, <1>f DEF RowOk
    <3>3. TokensOk'
      BY <1>s, <2>1, <2>4, <2>5 DEF Consistent, TokensOk, TokenOk, TypeOK
    <3> QED
      BY <1>s, <2>1, <2>4, <2>6, <3>1, <3>2, <3>3, PageStep
  <2>11. OrphansOnlyFromFailures'
    <3>1. \A d \in Codes : rows'[d].status = "claimed" => rows'[d] = rows[d]
      BY <2>4
    <3> QED
      BY <1>s, <2>1, <2>7, <3>1, NoNewOrphans
  <2> QED
    BY <2>9, <2>10, <2>11 DEF Sound
<1>5. ASSUME PairingOpened(h) PROVE Sound'
  <2>1. page[h].code \in Codes /\ page[h].seen \cup {Pending(page[h].code)} \in SUBSET Entry
    BY <1>5, <1>p, <1>f, EntriesTyped DEF PairingOpened, PageOk
  <2>2. vault' \subseteq Entry /\ failures' \in 0 .. MaxFailures /\ (failures' = 0 => failures = 0)
    BY <1>5, <1>s, <2>1, SavedDevices DEF PairingOpened
  <2> QED
    BY <1>5, <1>f, <2>2, PageEndsSound DEF PairingOpened, table
<1>6. ASSUME StatusReads(h) PROVE Sound'
  <2> DEFINE row == rows[page[h].code]
  <2>1. /\ page[h].op = "check" /\ page[h].stage = "asked"
        /\ UNCHANGED <<signedIn, asks, rows, devices, inserted, born, late, claim, vault, dialog, codes,
                       failures, tokens, paired>>
    BY <1>6 DEF StatusReads, table, local
  <2>2. page[h].code \in Codes /\ page[h].code # 0 /\ RowOk(page[h].code) /\ row \in Row \cup {NoRow}
    BY <1>s, <1>p, <1>f, <2>1 DEF PageOk, Consistent, RowsOk, TypeOK
  <2>3. page' = [page EXCEPT ![h] =
          CASE row.status = "pending" /\ page[h].code \in late -> [page[h] EXCEPT !.stage = "expiring"]
            [] row.status = "claimed" -> [page[h] EXCEPT !.stage = "answered", !.device = row.device]
            [] OTHER                  -> NoPage]
    BY <1>6 DEF StatusReads
  <2>4. \E p \in Page : PageOk(p) /\ page' = [page EXCEPT ![h] = p]
    <3>1. CASE row.status = "pending" /\ page[h].code \in late
      <4> DEFINE p == [page[h] EXCEPT !.stage = "expiring"]
      <4>1. p \in Page /\ p.op = "check" /\ p.stage = "expiring" /\ p.code = page[h].code
        BY <1>p, <2>1 DEF Page
      <4>2. page' = [page EXCEPT ![h] = p]
        BY <2>3, <3>1
      <4> HIDE DEF p
      <4>3. PageOk(p)
        BY <1>f, <2>2, <3>1, <4>1 DEF PageOk
      <4> QED
        BY <4>1, <4>2, <4>3
    <3>2. CASE row.status = "claimed"
      <4> DEFINE p == [page[h] EXCEPT !.stage = "answered", !.device = row.device]
      <4>1. row.device \in 0 .. MaxDevices /\ row.device \in 1 .. inserted /\ born[row.device] = page[h].code
        BY <2>2, <3>2 DEF RowOk, Row, NoRow
      <4>2. p \in Page /\ p.op = "check" /\ p.stage = "answered" /\ p.code = page[h].code /\ p.device = row.device
        BY <1>p, <2>1, <4>1 DEF Page
      <4>3. page' = [page EXCEPT ![h] = p]
        BY <2>3, <3>2
      <4> HIDE DEF p
      <4>4. PageOk(p)
        BY <1>f, <2>2, <4>1, <4>2 DEF PageOk
      <4> QED
        BY <4>2, <4>3, <4>4
    <3>3. CASE ~(row.status = "pending" /\ page[h].code \in late) /\ row.status # "claimed"
      BY <1>n, <2>3, <3>3
    <3> QED
      BY <3>1, <3>2, <3>3
  <2>5. PICK p \in Page : PageOk(p) /\ page' = [page EXCEPT ![h] = p]
    BY <2>4
  <2>6. paired' \subseteq [entry : Codes, device : Devices]
    BY <1>s, <2>1 DEF TypeOK
  <2> QED
    BY <1>f, <2>1, <2>5, <2>6, PageMovesSound
<1>7. ASSUME StatusExpires(h) PROVE Sound'
  <2>0. PICK c \in Codes : c = page[h].code /\ c \in late
    BY <1>7, <1>p, <1>f DEF StatusExpires, PageOk
  <2>1. /\ page' = [page EXCEPT ![h] = NoPage] /\ rows' = [rows EXCEPT ![c].status = "expired"]
        /\ UNCHANGED <<signedIn, asks, devices, inserted, born, late, claim, vault, dialog, codes,
                       failures, tokens, paired>>
    BY <1>7, <2>0 DEF StatusExpires, history, local
  <2>2. c <= codes /\ RowOk(c) /\ rows[c] \in Row \cup {NoRow} /\ rows[c].device \in 0 .. MaxDevices
    BY <1>s, <1>f, <2>0 DEF Consistent, RowsOk, TypeOK, Row, NoRow
  <2>3. /\ rows'[c].status = "expired" /\ rows'[c].device = rows[c].device
        /\ rows' \in [Codes -> Row \cup {NoRow}]
        /\ \A d \in Codes \ {c} : rows'[d] = rows[d]
    BY <1>s, <2>1, <2>2 DEF TypeOK, Row, NoRow
  <2>4. page' \in [Handlers -> Page] /\ page'[h] = NoPage /\ \A g \in Handlers \ {h} : page'[g] = page[g]
    BY <1>s, <1>n, <2>1 DEF TypeOK
  <2>5. TypeOK'
    BY <1>s, <2>1, <2>3, <2>4 DEF TypeOK
  <2>6. Consistent'
    <3>1. Grows /\ RowOk(c)'
      BY <1>s, <2>0, <2>1, <2>2, <2>3 DEF Grows, RowOk, TypeOK, Codes
    <3>2. TokensOk'
      BY <1>s, <2>1, <2>3 DEF Consistent, TokensOk, TokenOk, TypeOK
    <3>3. PageOk(page[h])'
      BY <1>n, <2>1, <2>4 DEF PageOk
    <3> QED
      BY <1>s, <2>1, <2>3, <2>4, <3>1, <3>2, <3>3, PageStep
  <2>7. OrphansOnlyFromFailures'
    <3>1. \A d \in Codes : rows'[d].status = "claimed" => rows'[d] = rows[d]
      BY <2>3
    <3> QED
      BY <1>s, <2>1, <3>1, NoNewOrphans
  <2> QED
    BY <2>5, <2>6, <2>7 DEF Sound
<1>8. ASSUME PairingChecked(h) PROVE Sound'
  <2> DEFINE p == page[h]
             found == Checked(p)
             entries == (p.seen \ found) \cup {RenamedTo(e, p.device) : e \in found}
             pairs == {[entry |-> e.id, device |-> p.device] : e \in found}
  <2>1. /\ p.op = "check" /\ p.stage = "answered" /\ SavesDevices(entries) /\ paired' = paired \cup pairs
        /\ dialog' \in {0, dialog} /\ page' = [page EXCEPT ![h] = NoPage]
        /\ UNCHANGED <<signedIn, asks, rows, devices, inserted, born, late, claim, codes, tokens>>
    BY <1>8 DEF PairingChecked, table
  <2>2. /\ p.device \in 1 .. inserted /\ p.device \in Devices /\ born[p.device] = p.code
        /\ p.code \in Codes
    BY <1>s, <1>p, <1>f, <2>1 DEF PageOk, TypeOK, Devices
  <2>3. found \subseteq Entry /\ \A e \in found : e.id = p.code
    BY <1>f DEF Checked
  <2>4. entries \in SUBSET Entry
    BY <1>f, <2>2, <2>3, EntriesTyped
  <2>5. vault' \subseteq Entry /\ failures' \in 0 .. MaxFailures /\ (failures' = 0 => failures = 0)
    BY <1>s, <2>1, <2>4, SavedDevices
  <2>6. \A q \in pairs : q \in [entry : Codes, device : Devices] /\ PairOk(q)
    BY <2>2, <2>3 DEF PairOk
  <2> HIDE DEF entries, pairs, found
  <2>7. paired' \subseteq [entry : Codes, device : Devices] /\ \A q \in paired' : q \in paired \/ PairOk(q)
    BY <1>s, <2>1, <2>6 DEF TypeOK
  <2>8. dialog' \in 0 .. codes
    BY <1>f, <2>1
  <2> QED
    BY <1>n, <2>1, <2>5, <2>7, <2>8, PageMovesSound
<1>9. ASSUME RevokeArrives(h) PROVE Sound'
  <2>1. /\ page[h].op = "remove" /\ page[h].stage = "asked" /\ devices' \subseteq devices
        /\ \/ page' = [page EXCEPT ![h].stage = "answered"] /\ UNCHANGED failures
           \/ page' = [page EXCEPT ![h] = NoPage] /\ (UNCHANGED failures \/ Fails)
        /\ UNCHANGED <<signedIn, asks, rows, inserted, born, late, claim, vault, dialog, codes, tokens, paired>>
    BY <1>9 DEF RevokeArrives, history, local
  <2>2. failures' \in 0 .. MaxFailures /\ (failures' = 0 => failures = 0)
    BY <1>s, <1>f, <2>1, FailsTyped
  <2>3. CASE page' = [page EXCEPT ![h] = NoPage]
    BY <1>f, <2>1, <2>2, <2>3, PageEndsSound
  <2>4. CASE page' = [page EXCEPT ![h].stage = "answered"]
    <3>1. PICK p : p = [page[h] EXCEPT !.stage = "answered"]
      OBVIOUS
    <3>2. p \in Page /\ p.op = "remove" /\ p.stage = "answered" /\ p.code = page[h].code
      BY <1>p, <2>1, <3>1 DEF Page
    <3>3. PageOk(p)
      BY <1>f, <3>2 DEF PageOk
    <3>4. page' = [page EXCEPT ![h] = p]
      BY <2>4, <3>1
    <3>5. paired' \subseteq [entry : Codes, device : Devices]
      BY <1>s, <2>1 DEF TypeOK
    <3> QED
      BY <1>f, <2>1, <2>2, <3>2, <3>3, <3>4, <3>5, PageMovesSound
  <2> QED
    BY <2>1, <2>3, <2>4
<1>10. ASSUME DeviceRemoved(h) PROVE Sound'
  <2>1. Without(page[h].seen, page[h].gone) \in SUBSET Entry
    BY <1>f DEF Without
  <2>2. vault' \subseteq Entry /\ failures' \in 0 .. MaxFailures /\ (failures' = 0 => failures = 0)
    BY <1>10, <1>s, <2>1, SavedDevices DEF DeviceRemoved
  <2> QED
    BY <1>10, <1>f, <2>2, PageEndsSound DEF DeviceRemoved, table
<1>11. ASSUME PageFails(h) PROVE Sound'
  <2>1. failures' \in 0 .. MaxFailures /\ failures' # 0
    BY <1>11, <1>s, FailsTyped DEF PageFails
  <2> QED
    BY <1>11, <1>f, <2>1, PageEndsSound DEF PageFails, table, local
<1> QED
  BY <1>1, <1>2, <1>3, <1>4, <1>5, <1>6, <1>7, <1>8, <1>9, <1>10, <1>11 DEF PageNext
-----------------------------------------------------------------------------
(* Every step *)

LEMMA InitSound == Init => Sound
<1> SUFFICES ASSUME Init PROVE Sound
  OBVIOUS
<1> USE PairingAssumption
<1>1. NoClaim \in Claim /\ NoPage \in Page /\ NoClaim.stage = "idle" /\ NoClaim.after = FALSE
  BY DEF NoClaim, Claim, NoPage, Page
<1>2. /\ claim \in [Claims -> Claim] /\ \A a \in Claims : claim[a] = NoClaim
      /\ page \in [Handlers -> Page] /\ \A h \in Handlers : page[h] = NoPage
      /\ rows \in [Codes -> Row \cup {NoRow}] /\ \A c \in Codes : rows[c] = NoRow
      /\ born \in [Devices -> 0 .. MaxCodes]
  BY <1>1 DEF Init
<1>3. codes \in 0 .. MaxCodes /\ asks \in 0 .. MaxAsks /\ inserted \in 0 .. MaxDevices
      /\ failures \in 0 .. MaxFailures /\ dialog \in 0 .. codes
  BY DEF Init
<1>4. TypeOK
  BY <1>2, <1>3 DEF Init, TypeOK
<1>5. RowsOk /\ TokensOk /\ PairsOk
  BY <1>2 DEF Init, RowsOk, RowOk, TokensOk, PairsOk, NoRow
<1>6. ClaimsOk
  BY <1>1, <1>2 DEF ClaimsOk, ClaimOk
<1>7. PagesOk
  BY <1>2, <1>4, NoPageIsOk DEF PagesOk
<1>8. OrphansOnlyFromFailures
  BY <1>2 DEF Init, OrphansOnlyFromFailures, NoRow
<1> QED
  BY <1>4, <1>5, <1>6, <1>7, <1>8 DEF Sound, Consistent

\* A step on the vault, the dialog or the clock.
LEMMA LocalSound ==
  ASSUME Sound, UNCHANGED <<signedIn, asks, rows, devices, inserted, born, claim, page, tokens, paired>>,
         codes' \in 0 .. MaxCodes, codes' \in {codes, codes + 1}, late \subseteq late', late' \subseteq Codes,
         vault' \subseteq Entry, dialog' \in 0 .. codes',
         failures' \in 0 .. MaxFailures, failures' = 0 => failures = 0
  PROVE  Sound'
<1>s. TypeOK /\ Consistent /\ OrphansOnlyFromFailures
  BY DEF Sound
<1>1. TypeOK'
  BY <1>s DEF TypeOK
<1>2. Consistent'
  BY <1>s, LocalStep
<1>3. OrphansOnlyFromFailures'
  BY <1>s, NoNewOrphans
<1> QED
  BY <1>1, <1>2, <1>3 DEF Sound

LEMMA NextSound == Sound /\ [Next]_vars => Sound'
<1> SUFFICES ASSUME Sound, [Next]_vars PROVE Sound'
  OBVIOUS
<1> USE PairingAssumption
<1>s. TypeOK
  BY DEF Sound
<1>f. /\ vault \subseteq Entry /\ dialog \in 0 .. codes /\ failures \in 0 .. MaxFailures
      /\ codes \in 0 .. MaxCodes /\ late \subseteq Codes
  BY <1>s DEF TypeOK
<1>1. ASSUME NEW a \in Claims, ClaimNext(a) PROVE Sound'
  BY <1>1, ClaimNextSound
<1>2. ASSUME NEW h \in Handlers, PageNext(h) PROVE Sound'
  BY <1>2, PageNextSound
<1>3. ASSUME NEW c \in Codes, Expires(c) PROVE Sound'
  BY <1>3, <1>f, LocalSound DEF Expires, table, local, pages
<1>4. ASSUME NEW e \in vault, RemovesLocally(e) PROVE Sound'
  <2>1. Without(vault, {e}) \in SUBSET Entry
    BY <1>f DEF Without
  <2>2. vault' \subseteq Entry /\ failures' \in 0 .. MaxFailures /\ (failures' = 0 => failures = 0)
    BY <1>4, <1>s, <2>1, SavedDevices DEF RemovesLocally
  <2> QED
    BY <1>4, <1>f, <2>2, LocalSound DEF RemovesLocally, table, pages
<1>5. ASSUME NEW e \in vault, PluginPairs(e) PROVE Sound'
  <2>1. vault' \subseteq Entry
    BY <1>5, <1>f, EntriesTyped DEF PluginPairs
  <2> QED
    BY <1>5, <1>f, <2>1, LocalSound DEF PluginPairs, table, pages
<1>6. ASSUME OpensLocally PROVE Sound'
  <2>1. codes' \in Codes /\ codes' = codes + 1 /\ dialog' = codes'
    BY <1>6, <1>f DEF OpensLocally, Codes
  <2>2. PICK c \in Codes : c = codes'
    BY <2>1
  <2>3. vault \cup {Pending(c)} \in SUBSET Entry
    BY <1>f, EntriesTyped
  <2>4. vault' \subseteq Entry /\ failures' \in 0 .. MaxFailures /\ (failures' = 0 => failures = 0)
    <3>1. SavesDevices(vault \cup {Pending(c)})
      BY <1>6, <2>2 DEF OpensLocally
    <3> QED
      BY <1>s, <2>3, <3>1, SavedDevices
  <2>5. codes' \in 0 .. MaxCodes /\ dialog' \in 0 .. codes'
    BY <2>1 DEF Codes
  <2> QED
    BY <1>6, <1>f, <2>1, <2>4, <2>5, LocalSound DEF OpensLocally, table, pages
<1>7. ASSUME ClosesDialog PROVE Sound'
  <2>1. dialog' \in 0 .. codes
    BY <1>7, <1>f DEF ClosesDialog
  <2> QED
    BY <1>7, <1>f, <2>1, LocalSound DEF ClosesDialog, table, pages
<1>8. ASSUME SimulatesConnected PROVE Sound'
  <2> DEFINE here == {e \in vault : e.kind = "local" /\ e.id = dialog}
             entries == (vault \ here) \cup {Connected(e) : e \in here}
  <2>1. entries \in SUBSET Entry
    BY <1>f, EntriesTyped
  <2>2. SavesDevices(entries) /\ dialog' \in {0, dialog}
    BY <1>8 DEF SimulatesConnected
  <2> HIDE DEF entries
  <2>3. vault' \subseteq Entry /\ failures' \in 0 .. MaxFailures /\ (failures' = 0 => failures = 0)
    BY <1>s, <2>1, <2>2, SavedDevices
  <2>4. dialog' \in 0 .. codes
    BY <1>f, <2>2
  <2> QED
    BY <1>8, <1>f, <2>3, <2>4, LocalSound DEF SimulatesConnected, table, pages
<1>9. CASE UNCHANGED vars
  BY <1>9, <1>f, LocalSound DEF vars
<1> QED
  BY <1>1, <1>2, <1>3, <1>4, <1>5, <1>6, <1>7, <1>8, <1>9 DEF Next

\* The inductive invariant: rows, claims, polls and pairs agree about which code
\* a device claimed, and a code that was taken is never pending again.
THEOREM TablesAgree == Spec => []Sound
BY InitSound, NextSound, PTL DEF Spec

\* Every variable of the pairing keeps its type.
THEOREM Typing == Spec => []TypeOK
BY TablesAgree, PTL DEF Sound

\* A claim made after another was answered with a token never gets one.
THEOREM SecondClaimsFail == Spec => []LaterClaimsFail
<1>1. Sound => LaterClaimsFail
  BY DEF Sound, Consistent, TokensOk, TokenOk, LaterClaimsFail
<1> QED
  BY <1>1, TablesAgree, PTL

\* A poll undoes a claim only after the deadline.
THEOREM CodesStayTaken == Spec => []TakenCodeStaysTaken
<1>1. Sound => TakenCodeStaysTaken
  BY DEF Sound, TypeOK, Consistent, TokensOk, TokenOk, RowsOk, RowOk, TakenCodeStaysTaken
<1> QED
  BY <1>1, TablesAgree, PTL

\* The page connects an entry only to the device that claimed its code.
THEOREM PairsBelongTogether == Spec => []PairedUnderItsCode
<1>1. Sound => PairedUnderItsCode
  BY DEF Sound, Consistent, PairsOk, PairOk, PairedUnderItsCode
<1> QED
  BY <1>1, TablesAgree, PTL

\* Without failures no device is connected whose token nobody received.
THEOREM NoOrphans == Spec => []OrphansOnlyFromFailures
BY TablesAgree, PTL DEF Sound
=============================================================================
