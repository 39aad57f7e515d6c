------------------------------ MODULE NoteTools ------------------------------
(***************************************************************************)
(* The two tools that make private notes: mint_pn_pool appends notes paid  *)
(* by the giver to a pool file, onboard_user makes one note paid by the    *)
(* user's wallet and resumes from a state file.  Both buy a voucher, find  *)
(* its event, prove it, deploy the note, and do the same for its gas.      *)
(*                                                                         *)
(* A tool may stop between any two steps: it is killed, a call fails or    *)
(* times out, or a helper panics; what it held in memory is gone.  A file  *)
(* is truncated first and written then.                                    *)
(***************************************************************************)
EXTENDS RootPN

CONSTANTS TORN,                   \* content of a file whose write was cut short
          HISTORY_PROOF_ATTEMPTS,
          ECC_SHELL_DEPOSIT_RAW,  \* the gas voucher's nominal
          ROOTPN_SHELL_BUDGET,    \* what every run of mint_pn_pool gives RootPN
          EXTOUT_WINDOW           \* ext-out messages one poll looks at

VARIABLES root,   \* RootPN and the notes
          noise,  \* [v |-> number of ext-out messages of RootPN after v's event]
          disk,   \* the files
          tool,   \* the tools' processes
          used,   \* keys generated so far
          plan    \* the scenario: what may happen, and how often

toolVars == <<root, noise, disk, tool, used>>

Tools == {"pool", "user"}
Files == {"pool", "seedNotes", "state", "account"}
Readable(f) == disk[f] # NULL /\ disk[f] # TORN

\* pc: the next step; then: the step after a save; step: what the voucher in hand
\* is for; mem: the pool or state in memory.
Stopped == [pc |-> "stopped", then |-> NULL, step |-> NULL, file |-> NULL, mem |-> NULL,
            key |-> NULL, voucher |-> NULL, note |-> NULL, attempt |-> 0, left |-> 0]

ToolInit ==
  /\ root = NewRoot /\ noise = [v \in {} |-> 0]
  /\ disk = [f \in Files |-> NULL]
  /\ tool = [t \in Tools |-> Stopped] /\ used = {}

\* Step of tool t: to p.pc, with the files and the chain as given.
Proceed(t, p) == tool' = [tool EXCEPT ![t] = p]
Stop(t) == Proceed(t, Stopped)
Count(what) == plan[what] > 0 /\ plan' = [plan EXCEPT ![what] = @ - 1]

-----------------------------------------------------------------------------
(* Files. *)

\* save_pool writes the pool, then the notes in the API's format beside it.
FirstFile(t) == IF t = "pool" THEN "pool" ELSE "state"
SaveThen(t, p, next) ==
  Proceed(t, [p EXCEPT !.pc = "save", !.file = FirstFile(t), !.then = next])

\* Mutant: the newest note comes first.
PoolToSeedNotes_Newest(pool) ==
  [i \in DOMAIN pool.notes |->
     [address |-> pool.notes[Len(pool.notes) + 1 - i].address,
      key |-> pool.notes[Len(pool.notes) + 1 - i].key]]

PoolToSeedNotes(pool) ==
  [i \in DOMAIN pool.notes |->
     [address |-> pool.notes[i].address, key |-> pool.notes[i].key]]

Content(file, mem) ==
  CASE file = "seedNotes" -> PoolToSeedNotes(mem)
    [] file = "account" -> [address |-> mem.address, key |-> mem.key]
    [] OTHER -> mem

Truncate(t) ==
  /\ tool[t].pc = "save"
  /\ disk' = [disk EXCEPT ![tool[t].file] = TORN]
  /\ Proceed(t, [tool[t] EXCEPT !.pc = "write"])
  /\ UNCHANGED <<root, noise, used, plan>>

WriteFile(t) ==
  /\ tool[t].pc = "write"
  /\ disk' = [disk EXCEPT ![tool[t].file] = Content(tool[t].file, tool[t].mem)]
  /\ IF tool[t].file = "pool" THEN Proceed(t, [tool[t] EXCEPT !.pc = "save", !.file = "seedNotes"])
     ELSE IF tool[t].then = "done" THEN Stop(t)
     ELSE Proceed(t, [tool[t] EXCEPT !.pc = tool[t].then])
  /\ UNCHANGED <<root, noise, used, plan>>

-----------------------------------------------------------------------------
(* Start. *)

NewPool(shape) == [shape |-> shape, notes |-> <<>>]
NewState(shape) ==
  [shape |-> shape, address |-> NULL, key |-> NULL, funded |-> FALSE, sane |-> FALSE]

\* load_or_init_pool, load_or_init_state: a file that cannot be parsed, or was
\* made with other arguments (endpoint, nominal, token), is refused.
LoadOrInit(file, shape, new) ==
  IF disk[file] = NULL THEN new
  ELSE IF disk[file] = TORN \/ disk[file].shape # shape THEN NULL ELSE disk[file]

LoadOrInitPool(shape) == LoadOrInit("pool", shape, NewPool(shape))
LoadOrInitState(shape) == LoadOrInit("state", shape, NewState(shape))

\* Mutant: a run that finds no gas on the note begins with new keys.
ResumeAt_Keys(s) ==
  CASE s.address = NULL \/ ~s.funded -> "keys"
    [] ~s.sane -> "sanity"
    [] OTHER -> "account"

\* onboard_user skips the steps its state has behind it.
ResumeAt(s) ==
  CASE s.address = NULL -> "keys"
    [] s.address # NULL /\ ~s.funded -> "gas"
    [] s.funded /\ ~s.sane -> "sanity"
    [] OTHER -> "account"

EnsureRootPnFunded == Receive(root, ROOTPN_SHELL_BUDGET)

\* RootPN is given its budget before the pool is looked at.
StartPool(shape) ==
  /\ tool["pool"].pc = "stopped" /\ Count("poolRuns")
  /\ root' = EnsureRootPnFunded
  /\ LET pool == LoadOrInitPool(shape)
     IN IF pool = NULL THEN Stop("pool")
        ELSE SaveThen("pool", [Stopped EXCEPT !.mem = pool, !.left = plan.count], "notes")
  /\ UNCHANGED <<noise, disk, used>>

StartUser(shape) ==
  /\ tool["user"].pc = "stopped" /\ Count("userRuns")
  /\ LET s == LoadOrInitState(shape)
     IN IF s = NULL THEN Stop("user")
        ELSE SaveThen("user", [Stopped EXCEPT !.mem = s, !.key = s.key, !.note = s.address],
                      ResumeAt(s))
  /\ UNCHANGED <<root, noise, disk, used>>

\* An error, a timeout, a panic of a helper, or the end of the process.
Abort(t) ==
  /\ tool[t].pc # "stopped" /\ Count("crashes") /\ Stop(t)
  /\ UNCHANGED <<root, noise, disk, used>>

-----------------------------------------------------------------------------
(* Keys. *)

FreshKey == CHOOSE k \in Keys : k \notin used

\* The pool's loop: the keys of the next note, in memory.
NextNote ==
  /\ tool["pool"].pc = "notes"
  /\ IF tool["pool"].left = 0 THEN Stop("pool") /\ UNCHANGED used
     ELSE /\ used # Keys /\ used' = used \cup {FreshKey}
          /\ Proceed("pool", [tool["pool"] EXCEPT !.pc = "pay", !.step = "deposit", !.attempt = 1,
                                                  !.key = FreshKey, !.left = @ - 1])
  /\ UNCHANGED <<root, noise, disk, plan>>

\* The user's keys are saved before anything is paid.
UserKeys ==
  /\ tool["user"].pc = "keys" /\ used # Keys
  /\ used' = used \cup {FreshKey}
  /\ SaveThen("user", [tool["user"] EXCEPT !.key = FreshKey, !.step = "deposit", !.attempt = 1,
                                           !.mem.key = FreshKey], "pay")
  /\ UNCHANGED <<root, noise, disk, plan>>

UserGas ==
  /\ tool["user"].pc = "gas"
  /\ Proceed("user", [tool["user"] EXCEPT !.pc = "pay", !.step = "gas", !.attempt = 1])
  /\ UNCHANGED <<root, noise, disk, used, plan>>

-----------------------------------------------------------------------------
(* Vouchers. *)

\* plan_voucher: what to send so that the voucher has this nominal.
PlanVoucher(token, nominal, isFee) ==
  IF token # "SHELL" THEN [NoEcc EXCEPT ![token] = nominal, !["SHELL"] = GAS_DEPOSIT]
  ELSE IF isFee THEN [NoEcc EXCEPT !["SHELL"] = nominal]
  ELSE [NoEcc EXCEPT !["SHELL"] = nominal + GAS_DEPOSIT]

\* Every voucher is one more ext-out message of RootPN.
NoiseAfter(r) ==
  [v \in DOMAIN r.vouchers |-> IF v \in DOMAIN noise THEN noise[v] + 1 ELSE 0]

\* A payment with a fresh commitment.  The tool remembers the voucher it will look for.
Pay(t) ==
  /\ tool[t].pc = "pay"
  /\ LET isFee == tool[t].step = "gas"
         ecc == IF isFee THEN PlanVoucher("SHELL", ECC_SHELL_DEPOSIT_RAW, TRUE)
                ELSE PlanVoucher(plan.token, plan.nominal, FALSE)
         r == GenerateVoucher(root, ecc, isFee)
     IN /\ root' = r
        /\ noise' = IF r = root THEN noise ELSE NoiseAfter(r)
        /\ Proceed(t, [tool[t] EXCEPT !.pc = "prove", !.voucher =
             IF r = root THEN NULL ELSE Len(r.vouchers)])
  /\ UNCHANGED <<disk, used, plan>>
MintVoucherViaGiver == Pay("pool")
MintVoucherViaMultisig == Pay("user")

\* Ext-out messages of RootPN for others.
OtherExtOut ==
  /\ Count("others") /\ noise' = [v \in DOMAIN noise |-> noise[v] + 1]
  /\ UNCHANGED <<root, disk, tool, used>>

\* fetch_extout_voucher_events: the vouchers among the latest messages.
Fetched == {v \in DOMAIN noise : noise[v] < EXTOUT_WINDOW}
\* wait_for_voucher_event_by_sk_u_commit: the event with the own commitment.
Found(t) == IF tool[t].voucher \in Fetched THEN tool[t].voucher ELSE NULL

\* prove_voucher_for_event; the wait of a voucher that is not found ends in a panic.
Prove(t) ==
  /\ tool[t].pc = "prove"
  /\ IF Found(t) = NULL THEN Stop(t)
     ELSE Proceed(t, [tool[t] EXCEPT !.pc = "submit", !.voucher = Found(t)])
  /\ UNCHANGED <<root, noise, disk, used, plan>>

\* The history root of the proof has aged out: mint_pn_pool pays for another
\* voucher, a few times; onboard_user gives up.
Stale(t) ==
  /\ tool[t].pc = "submit" /\ Count("stale")
  /\ IF t = "pool" /\ tool[t].attempt < HISTORY_PROOF_ATTEMPTS
     THEN Proceed(t, [tool[t] EXCEPT !.pc = "pay", !.attempt = @ + 1])
     ELSE Stop(t)
  /\ UNCHANGED <<root, noise, disk, used>>

-----------------------------------------------------------------------------
(* The note. *)

\* The scenario bounds the messages on their way.
Room == BagCardinality(root.transit) < plan.inFlight

\* deployPrivateNote, and the note's address.
Deploy(t) ==
  /\ tool[t].pc = "submit" /\ tool[t].step = "deposit" /\ Room
  /\ root' = DeployPrivateNote(root, tool[t].voucher, tool[t].key)
  /\ Proceed(t, [tool[t] EXCEPT !.pc = "await", !.note = tool[t].voucher])
  /\ UNCHANGED <<noise, disk, used, plan>>

\* The wait until the note is active.
PoolDeployed ==
  /\ tool["pool"].pc = "await" /\ NoteExists(root, tool["pool"].note)
  /\ Proceed("pool", [tool["pool"] EXCEPT !.pc = "pay", !.step = "gas", !.attempt = 1])
  /\ UNCHANGED <<root, noise, disk, used, plan>>

UserDeployed ==
  /\ tool["user"].pc = "await" /\ NoteExists(root, tool["user"].note)
  /\ SaveThen("user", [tool["user"] EXCEPT !.mem.address = tool["user"].note], "gas")
  /\ UNCHANGED <<root, noise, disk, used, plan>>

\* sendEccShellToPrivateNote; the tools sleep a while and record it as done.
Fund(t) ==
  /\ tool[t].pc = "submit" /\ tool[t].step = "gas" /\ Room
  /\ root' = SendEccShell(root, tool[t].voucher, tool[t].note)
  /\ Proceed(t, [tool[t] EXCEPT !.pc = "funded"])
  /\ UNCHANGED <<noise, disk, used, plan>>

UserFunded ==
  /\ tool["user"].pc = "funded"
  /\ SaveThen("user", [tool["user"] EXCEPT !.mem.funded = TRUE], "sanity")
  /\ UNCHANGED <<root, noise, disk, used, plan>>

\* The giver's native top-up, likewise.
TopUp ==
  /\ tool["pool"].pc = "funded" /\ Room
  /\ root' = SendNative(root, tool["pool"].note)
  /\ Proceed("pool", [tool["pool"] EXCEPT !.pc = "ready"])
  /\ UNCHANGED <<noise, disk, used, plan>>

PoolNote(p) == [address |-> p.note, key |-> p.key, funded |-> TRUE, native |-> TRUE]

Push ==
  /\ tool["pool"].pc = "ready"
  /\ SaveThen("pool", [tool["pool"] EXCEPT !.mem.notes = Append(@, PoolNote(tool["pool"]))],
              "notes")
  /\ UNCHANGED <<root, noise, disk, used, plan>>

\* getDetails of the note.
Sanity ==
  /\ tool["user"].pc = "sanity" /\ NoteExists(root, tool["user"].note)
  /\ SaveThen("user", [tool["user"] EXCEPT !.mem.sane = TRUE], "account")
  /\ UNCHANGED <<root, noise, disk, used, plan>>

WriteAccount ==
  /\ tool["user"].pc = "account"
  /\ Proceed("user", [tool["user"] EXCEPT !.pc = "save", !.file = "account", !.then = "done"])
  /\ UNCHANGED <<root, noise, disk, used, plan>>

-----------------------------------------------------------------------------
(* The chain, and other users of RootPN: any payment, and a submission     *)
(* that is sent again.                                                     *)

Delivery ==
  /\ \E m \in DOMAIN root.transit : root' = Delivered(root, m)
  /\ UNCHANGED <<noise, disk, tool, used, plan>>

AnyPayment(ecc, isFee) ==
  /\ Count("payments") /\ Sells(ecc, isFee)
  /\ root' = GenerateVoucher(root, ecc, isFee) /\ noise' = NoiseAfter(root')
  /\ UNCHANGED <<disk, tool, used>>

AnySubmit(v, key) ==
  /\ Count("submits") /\ Room
  /\ \/ root' = DeployPrivateNote(root, v, key)
     \/ \E n \in DOMAIN root.notes : root' = SendEccShell(root, v, n)
  /\ UNCHANGED <<noise, disk, tool, used>>

ToolStep ==
  \/ \E t \in Tools : \/ Truncate(t) \/ WriteFile(t) \/ Prove(t)
                      \/ Deploy(t) \/ Fund(t)
  \/ MintVoucherViaGiver \/ MintVoucherViaMultisig
  \/ NextNote \/ UserKeys \/ UserGas \/ PoolDeployed \/ UserDeployed \/ UserFunded
  \/ TopUp \/ Push \/ Sanity \/ WriteAccount
==============================================================================
