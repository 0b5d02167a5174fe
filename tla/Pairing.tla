------------------------------- MODULE Pairing -------------------------------
(***************************************************************************)
(* Pairing of devices: the tables of pairing requests and devices behind    *)
(* api/pair, the agents that claim a code, the Devices page that opens,     *)
(* checks and removes pairings, and the plugin's /personafy pair.           *)
(*                                                                         *)
(* An API handler is a sequence of database requests; handlers overlap, and *)
(* supabaseRest repeats a request whose answer was lost.  A handler of the  *)
(* page captures the vault and the dialog of its render, awaits the API and *)
(* then saves the captured vault with its change.                          *)
(*                                                                         *)
(* Codes and cloud devices are numbered in the order they are made; the     *)
(* local entry made with a code has its number.  The save queue and the     *)
(* plugin's read and write are one step here (VaultProvider, ApprovalFlow). *)
(* The posture, which the plugin and one button look at, is left open: any  *)
(* step it forbids may be taken.                                            *)
(* The history variables tokens, born and paired are not in the code.       *)
(***************************************************************************)
EXTENDS Naturals

CONSTANTS
  Claims,       \* bound: POST /api/pair/claim in progress at once
  Handlers,     \* bound: handlers of the Devices page that await at once
  MaxCodes,     \* bound: pairings opened
  MaxDevices,   \* bound: rows ever inserted into devices
  MaxAsks,      \* bound: handlers of the page that call the API
  MaxFailures   \* bound: requests, saves and answers that fail or are lost

ASSUME PairingAssumption ==
  MaxCodes \in Nat /\ MaxDevices \in Nat /\ MaxAsks \in Nat /\ MaxFailures \in Nat

VARIABLES
  signedIn,  \* cloudPairingReady: the page uses the API
  rows,      \* per code: its row in pairing_requests, or NoRow
  late,      \* the codes whose deadline has passed
  devices,   \* the rows of the table devices
  claim,     \* per slot: the claim in progress
  vault,     \* vault.devices
  dialog,    \* the code the pairing dialog shows, or 0
  page,      \* per slot: the handler of the page that awaits
  codes,     \* codes made so far
  inserted,  \* devices inserted so far
  asks,      \* handlers of the page that have called the API so far
  failures,
  tokens,    \* history: the claims answered with a token
  born,      \* history, per device: the code its claim brought
  paired     \* history: the local entries the page renamed to cloud devices

table   == <<rows, devices, inserted, born>>
local   == <<vault, dialog>>
pages   == <<page, asks>>
history == <<tokens, born, paired>>
vars == <<signedIn, rows, late, devices, claim, vault, dialog, page, codes,
          inserted, asks, failures, tokens, born, paired>>

Codes   == 1 .. MaxCodes
Devices == 1 .. MaxDevices

Row   == [status : {"pending", "claimed", "expired"}, device : 0 .. MaxDevices]
NoRow == [status |-> "none", device |-> 0]

\* VaultDevice: an entry the page made (kind "local") or one renamed to the
\* cloud's id; its code is removed when it is connected.
Entry == [kind : {"local", "cloud"}, id : Codes \cup Devices, code : 0 .. MaxCodes,
          status : {"pairing", "connected"}]

Claim  == [stage : {"idle", "sent", "expiring", "found", "inserted"},
           code : 0 .. MaxCodes, device : 0 .. MaxDevices, after : BOOLEAN]
NoClaim == [stage |-> "idle", code |-> 0, device |-> 0, after |-> FALSE]

Page   == [op : {"none", "open", "check", "remove"},
           stage : {"idle", "asked", "expiring", "answered"},
           seen : SUBSET Entry, code : 0 .. MaxCodes, gone : SUBSET Entry, device : 0 .. MaxDevices]
NoPage == [op |-> "none", stage |-> "idle", seen |-> {}, code |-> 0, gone |-> {}, device |-> 0]

TypeOK ==
  /\ signedIn \in BOOLEAN
  /\ rows \in [Codes -> Row \cup {NoRow}] /\ late \subseteq Codes
  /\ devices \subseteq 1 .. inserted
  /\ claim \in [Claims -> Claim]
  /\ vault \subseteq Entry
  /\ dialog \in 0 .. codes
  /\ page \in [Handlers -> Page]
  /\ codes \in 0 .. MaxCodes /\ asks \in 0 .. MaxAsks
  /\ inserted \in 0 .. MaxDevices /\ failures \in 0 .. MaxFailures
  /\ tokens \subseteq [code : Codes, device : Devices, after : BOOLEAN]
  /\ born \in [Devices -> 0 .. MaxCodes]
  /\ paired \subseteq [entry : Codes, device : Devices]

Init ==
  /\ signedIn \in BOOLEAN
  /\ rows = [c \in Codes |-> NoRow] /\ late = {}
  /\ devices = {} /\ inserted = 0
  /\ claim = [a \in Claims |-> NoClaim]
  /\ vault = {} /\ dialog = 0
  /\ page = [h \in Handlers |-> NoPage]
  /\ codes = 0 /\ asks = 0 /\ failures = 0
  /\ tokens = {} /\ born = [d \in Devices |-> 0] /\ paired = {}

Fails == failures < MaxFailures /\ failures' = failures + 1

Expires(c) ==
  /\ c <= codes /\ c \notin late
  /\ late' = late \cup {c}
  /\ UNCHANGED <<signedIn, table, claim, local, pages, codes, failures, tokens, paired>>

-----------------------------------------------------------------------------
(* POST /api/pair/claim *)

Claimant(a, c) ==
  /\ claim[a].stage = "idle"
  /\ claim' = [claim EXCEPT ![a] =
       [stage |-> "sent", code |-> c, device |-> 0, after |-> \E t \in tokens : t.code = c]]
  /\ UNCHANGED <<signedIn, table, late, local, pages, codes, failures, tokens, paired>>

\* Mutant: the status is not part of the query.
ClaimFindsAny(a) ==
  LET c == claim[a].code IN
  /\ claim[a].stage = "sent"
  /\ claim' = [claim EXCEPT ![a] =
       IF rows[c] = NoRow THEN NoClaim
       ELSE [@ EXCEPT !.stage = IF c \in late THEN "expiring" ELSE "found"]]
  /\ UNCHANGED <<signedIn, table, late, local, pages, codes, failures, tokens, paired>>

\* The query for a pending row and the look at its deadline; 404 if none.
ClaimFinds(a) ==
  LET c == claim[a].code IN
  /\ claim[a].stage = "sent"
  /\ claim' = [claim EXCEPT ![a] =
       IF rows[c].status # "pending" THEN NoClaim
       ELSE [@ EXCEPT !.stage = IF c \in late THEN "expiring" ELSE "found"]]
  /\ UNCHANGED <<signedIn, table, late, local, pages, codes, failures, tokens, paired>>

\* The row is marked expired by its id alone; the answer is 410.
ClaimExpires(a) ==
  /\ claim[a].stage = "expiring"
  /\ rows' = [rows EXCEPT ![claim[a].code].status = "expired"]
  /\ claim' = [claim EXCEPT ![a] = NoClaim]
  /\ UNCHANGED <<signedIn, devices, inserted, late, local, pages, codes, failures, history>>

NewDevice(c) ==
  /\ inserted < MaxDevices
  /\ inserted' = inserted + 1
  /\ devices' = devices \cup {inserted'}
  /\ born' = [born EXCEPT ![inserted'] = c]

ClaimInserts(a) ==
  /\ claim[a].stage = "found"
  /\ NewDevice(claim[a].code)
  /\ claim' = [claim EXCEPT ![a].stage = "inserted", ![a].device = inserted']
  /\ UNCHANGED <<signedIn, rows, late, local, pages, codes, failures, tokens, paired>>

\* The device is inserted, the answer is lost, and supabaseRest inserts again.
InsertRepeats(a) ==
  /\ claim[a].stage = "found" /\ Fails
  /\ NewDevice(claim[a].code)
  /\ UNCHANGED <<signedIn, rows, late, claim, local, pages, codes, tokens, paired>>

\* Mutant: only a row that is still pending is marked; else 404.
ClaimMarksPending(a) ==
  LET c == claim[a].code IN
  /\ claim[a].stage = "inserted"
  /\ IF rows[c].status = "pending"
     THEN /\ rows' = [rows EXCEPT ![c] = [status |-> "claimed", device |-> claim[a].device]]
          /\ tokens' = tokens \cup {[code |-> c, device |-> claim[a].device, after |-> claim[a].after]}
     ELSE UNCHANGED <<rows, tokens>>
  /\ claim' = [claim EXCEPT ![a] = NoClaim]
  /\ UNCHANGED <<signedIn, devices, inserted, late, local, pages, codes, failures, born, paired>>

\* The row is marked claimed by its id alone, and the token is returned.
ClaimMarks(a) ==
  LET c == claim[a].code IN
  /\ claim[a].stage = "inserted"
  /\ rows' = [rows EXCEPT ![c] = [status |-> "claimed", device |-> claim[a].device]]
  /\ tokens' = tokens \cup {[code |-> c, device |-> claim[a].device, after |-> claim[a].after]}
  /\ claim' = [claim EXCEPT ![a] = NoClaim]
  /\ UNCHANGED <<signedIn, devices, inserted, late, local, pages, codes, failures, born, paired>>

\* A database request fails, or the answer to the agent is lost: 500 after
\* what has been done so far.
ClaimFails(a) ==
  /\ claim[a].stage # "idle" /\ Fails
  /\ \/ UNCHANGED rows
     \/ /\ claim[a].stage = "inserted"
        /\ rows' = [rows EXCEPT ![claim[a].code] = [status |-> "claimed", device |-> claim[a].device]]
  /\ claim' = [claim EXCEPT ![a] = NoClaim]
  /\ UNCHANGED <<signedIn, devices, inserted, late, local, pages, codes, history>>

-----------------------------------------------------------------------------
(* The Devices page *)

Asks(h, op, code, gone) ==
  /\ page[h].stage = "idle"
  /\ asks < MaxAsks /\ asks' = asks + 1
  /\ page' = [page EXCEPT ![h] = [op |-> op, stage |-> "asked", seen |-> vault,
                                 code |-> code, gone |-> gone, device |-> 0]]

\* updateVaultDevices: the whole list replaces what the vault holds by now.
SavesDevices(entries) ==
  \/ vault' = entries /\ UNCHANGED failures
  \/ Fails /\ UNCHANGED vault

Pending(c) == [kind |-> "local", id |-> c, code |-> c, status |-> "pairing"]

\* openPairing.
OpensPairing(h) ==
  /\ signedIn
  /\ Asks(h, "open", 0, {})
  /\ UNCHANGED <<signedIn, table, late, claim, local, codes, failures, tokens, paired>>

OpensLocally ==
  /\ ~signedIn
  /\ codes < MaxCodes /\ codes' = codes + 1
  /\ dialog' = codes'
  /\ SavesDevices(vault \cup {Pending(codes')})
  /\ UNCHANGED <<signedIn, table, late, claim, pages, tokens, paired>>

\* POST /api/pair/start inserts the code; or it does and the answer is lost.
StartInserts(h) ==
  /\ page[h].op = "open" /\ page[h].stage = "asked"
  /\ codes < MaxCodes /\ codes' = codes + 1
  /\ rows' = [rows EXCEPT ![codes'] = [status |-> "pending", device |-> 0]]
  /\ \/ page' = [page EXCEPT ![h].stage = "answered", ![h].code = codes'] /\ UNCHANGED failures
     \/ page' = [page EXCEPT ![h] = NoPage] /\ Fails
  /\ UNCHANGED <<signedIn, asks, devices, inserted, late, claim, local, history>>

PairingOpened(h) ==
  LET p == page[h] IN
  /\ p.op = "open" /\ p.stage = "answered"
  /\ dialog' = p.code
  /\ SavesDevices(p.seen \cup {Pending(p.code)})
  /\ page' = [page EXCEPT ![h] = NoPage]
  /\ UNCHANGED <<signedIn, asks, table, late, claim, codes, tokens, paired>>

ClosesDialog ==
  /\ dialog # 0 /\ dialog' = 0
  /\ UNCHANGED <<signedIn, table, late, claim, vault, pages, codes, failures, tokens, paired>>

\* checkPairing, from the dialog.
ChecksPairing(h) ==
  /\ signedIn /\ dialog # 0
  /\ Asks(h, "check", dialog, {})
  /\ UNCHANGED <<signedIn, table, late, claim, local, codes, failures, tokens, paired>>

\* GET /api/pair/status: a pending row past its deadline is going to be
\* marked; any answer but "claimed" ends in a toast.
StatusReads(h) ==
  LET row == rows[page[h].code] IN
  /\ page[h].op = "check" /\ page[h].stage = "asked"
  /\ page' = [page EXCEPT ![h] =
       CASE row.status = "pending" /\ page[h].code \in late -> [@ EXCEPT !.stage = "expiring"]
         [] row.status = "claimed" -> [@ EXCEPT !.stage = "answered", !.device = row.device]
         [] OTHER                  -> NoPage]
  /\ UNCHANGED <<signedIn, asks, table, late, claim, local, codes, failures, tokens, paired>>

StatusExpires(h) ==
  /\ page[h].stage = "expiring"
  /\ rows' = [rows EXCEPT ![page[h].code].status = "expired"]
  /\ page' = [page EXCEPT ![h] = NoPage]
  /\ UNCHANGED <<signedIn, asks, devices, inserted, late, claim, local, codes, failures, history>>

\* checkPairing renames the entry of its dialog to the claimed device.
RenamedTo(e, d) == [e EXCEPT !.kind = "cloud", !.id = d, !.code = 0, !.status = "connected"]

\* Mutant: the entry of the dialog that is open by now, in the present vault.
CheckedNow(p) == {e \in vault : e.kind = "local" /\ e.id = dialog}

Checked(p) == {e \in p.seen : e.kind = "local" /\ e.id = p.code}

PairingChecked(h) ==
  LET p == page[h] IN
  /\ p.op = "check" /\ p.stage = "answered"
  /\ SavesDevices((p.seen \ Checked(p)) \cup {RenamedTo(e, p.device) : e \in Checked(p)})
  /\ paired' = paired \cup {[entry |-> e.id, device |-> p.device] : e \in Checked(p)}
  /\ dialog' = IF failures' = failures THEN 0 ELSE dialog
  /\ page' = [page EXCEPT ![h] = NoPage]
  /\ UNCHANGED <<signedIn, asks, table, late, claim, codes, tokens>>

\* removeDevice: revokes first; the API takes only ids of its own, so a local
\* entry cannot be removed while signed in.
RemovesDevice(h, e) ==
  /\ signedIn /\ e \in vault
  /\ Asks(h, "remove", 0, {e})
  /\ UNCHANGED <<signedIn, table, late, claim, local, codes, failures, tokens, paired>>

RevokeArrives(h) ==
  LET ids == {e.id : e \in {x \in page[h].gone : x.kind = "cloud"}} IN
  /\ page[h].op = "remove" /\ page[h].stage = "asked"
  /\ devices' = devices \ ids
  /\ \/ page' = [page EXCEPT ![h] = IF ids = {} THEN NoPage ELSE [@ EXCEPT !.stage = "answered"]]
        /\ UNCHANGED failures
     \/ page' = [page EXCEPT ![h] = NoPage] /\ Fails
  /\ UNCHANGED <<signedIn, asks, rows, inserted, late, claim, local, codes, history>>

Without(entries, gone) == {e \in entries : \A g \in gone : <<e.kind, e.id>> # <<g.kind, g.id>>}

DeviceRemoved(h) ==
  LET p == page[h] IN
  /\ p.op = "remove" /\ p.stage = "answered"
  /\ SavesDevices(Without(p.seen, p.gone))
  /\ page' = [page EXCEPT ![h] = NoPage]
  /\ UNCHANGED <<signedIn, asks, table, late, claim, dialog, codes, tokens, paired>>

RemovesLocally(e) ==
  /\ ~signedIn /\ e \in vault
  /\ SavesDevices(Without(vault, {e}))
  /\ UNCHANGED <<signedIn, table, late, claim, dialog, pages, codes, tokens, paired>>

Connected(e) == [e EXCEPT !.code = 0, !.status = "connected"]

\* simulateConnected, offered in development builds, whatever the deadline.
SimulatesConnected ==
  /\ dialog # 0
  /\ LET here == {e \in vault : e.kind = "local" /\ e.id = dialog}
     IN  SavesDevices((vault \ here) \cup {Connected(e) : e \in here})
  /\ dialog' = IF failures' = failures THEN 0 ELSE dialog
  /\ UNCHANGED <<signedIn, table, late, claim, pages, codes, tokens, paired>>

\* /personafy pair: the plugin looks at posture, code, status and deadline of
\* the vault file; it asks no server.
PluginPairs(e) ==
  /\ e \in vault
  /\ e.status = "pairing" /\ e.code \notin late
  /\ vault' = (vault \ {e}) \cup {Connected(e)}
  /\ UNCHANGED <<signedIn, table, late, claim, dialog, pages, codes, failures, tokens, paired>>

\* A request of the page fails before it does anything, or its answer is lost.
PageFails(h) ==
  /\ page[h].stage # "idle" /\ page[h].stage # "answered" /\ Fails
  /\ page' = [page EXCEPT ![h] = NoPage]
  /\ UNCHANGED <<signedIn, asks, table, late, claim, local, codes, tokens, paired>>

-----------------------------------------------------------------------------

ClaimNext(a) ==
  \/ \E c \in 1 .. codes : Claimant(a, c)
  \/ ClaimFinds(a) \/ ClaimExpires(a) \/ ClaimInserts(a) \/ InsertRepeats(a)
  \/ ClaimMarks(a) \/ ClaimFails(a)

PageNext(h) ==
  \/ OpensPairing(h) \/ StartInserts(h) \/ PairingOpened(h)
  \/ ChecksPairing(h) \/ StatusReads(h) \/ StatusExpires(h) \/ PairingChecked(h)
  \/ \E e \in vault : RemovesDevice(h, e)
  \/ RevokeArrives(h) \/ DeviceRemoved(h) \/ PageFails(h)

Next ==
  \/ \E a \in Claims : ClaimNext(a)
  \/ \E h \in Handlers : PageNext(h)
  \/ \E c \in Codes : Expires(c)
  \/ \E e \in vault : RemovesLocally(e) \/ PluginPairs(e)
  \/ OpensLocally \/ ClosesDialog \/ SimulatesConnected

Spec == Init /\ [][Next]_vars

-----------------------------------------------------------------------------
(* Properties *)

\* A claim that is made after another was answered with a token never gets
\* one, whatever polls, failures and repeated requests there were since: two
\* agents share a code only when their claims overlap (handlePairClaim).
LaterClaimsFail == \A t \in tokens : ~t.after

\* Once an agent has its token the code is not pending any more, and a status
\* poll undoes the claim only after the deadline, when it had read the row
\* before the claim marked it (handlePairStatus).
TakenCodeStaysTaken ==
  \A t \in tokens : LET row == rows[t.code] IN
    /\ row.status \in {"claimed", "expired"}
    /\ row.status = "expired" => t.code \in late

\* The page turns an entry into a connected device only if that device claimed
\* the very code the entry was opened with, though other pairings may have been
\* opened, closed and checked while the poll was under way (checkPairing).
PairedUnderItsCode == \A p \in paired : born[p.device] = p.entry

\* Without failures no device is connected whose token nobody received, and a
\* claimed row names a device some agent has the token of (handlePairClaim).
OrphansOnlyFromFailures ==
  failures = 0 =>
    /\ \A d \in 1 .. inserted :
         \/ \E t \in tokens : t.device = d
         \/ \E a \in Claims : claim[a].stage = "inserted" /\ claim[a].device = d
    /\ \A c \in Codes : rows[c].status = "claimed" =>
         \E t \in tokens : t.code = c /\ t.device = rows[c].device
=============================================================================
