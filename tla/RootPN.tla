------------------------------- MODULE RootPN --------------------------------
(***************************************************************************)
(* The deposit side of RootPN: vouchers bought with ECC currencies, the    *)
(* private notes deployed against them, and the gas sent to a note against *)
(* a fee voucher.                                                          *)
(*                                                                         *)
(* A voucher is named by its place in the list of all vouchers; its owner's*)
(* secret, the deposit identifier hash and the address of the note are     *)
(* functions of it.  A proof is valid or not sent.                         *)
(***************************************************************************)
EXTENDS Absent, Naturals, Sequences, FiniteSets, Bags, SequencesExt, FiniteSetsExt, Functions

CONSTANTS GAS_DEPOSIT, \* SHELL taken with a deposit and handed to its note
          Nominals,    \* ALLOWED_NOMINALS
          Keys         \* key pairs: owners of notes

Currencies == {"NACKL", "SHELL", "SHELL_FEE"}
NoEcc == [c \in Currencies |-> 0]

\* ecc: what the contract holds of each currency; budget: SHELL sent to it for
\* nothing in return; transit: messages on their way, delivered in any order.
NewRoot == [vouchers |-> <<>>, notes |-> [v \in {} |-> NULL], nullifiers |-> {}, ecc |-> NoEcc,
            budget |-> 0, transit |-> EmptyBag]
Receive(r, shell) == [r EXCEPT !.ecc["SHELL"] = @ + shell, !.budget = @ + shell]

NoteExists(r, v) == v \in DOMAIN r.notes
Sent(ecc) == {c \in Currencies : ecc[c] > 0}

-----------------------------------------------------------------------------
(* generateVoucher *)

\* Mutant: one currency may be a gas voucher whatever it is.
VoucherOf_AnyFee(ecc, isFee) ==
  LET legs == Sent(ecc)
  IN CASE Cardinality(legs) = 2 /\ ecc["SHELL"] = GAS_DEPOSIT /\ ecc["SHELL_FEE"] = 0 ->
            [token |-> "NACKL", nominal |-> ecc["NACKL"]]
       [] legs = {"SHELL"} /\ isFee -> [token |-> "SHELL_FEE", nominal |-> ecc["SHELL"]]
       [] legs = {"NACKL"} /\ isFee -> [token |-> "NACKL", nominal |-> ecc["NACKL"]]
       [] legs = {"SHELL"} /\ ~isFee /\ ecc["SHELL"] >= GAS_DEPOSIT ->
            [token |-> "SHELL", nominal |-> ecc["SHELL"] - GAS_DEPOSIT]
       [] OTHER -> NULL

\* The voucher a payment buys, NULL for a mix that is refused: a second currency
\* is the nominal and SHELL the exact gas; SHELL alone pays its gas out of itself,
\* unless it is bought as gas.
VoucherOf(ecc, isFee) ==
  LET legs == Sent(ecc)
  IN CASE Cardinality(legs) = 2 /\ ecc["SHELL"] = GAS_DEPOSIT /\ ecc["SHELL_FEE"] = 0 ->
            [token |-> "NACKL", nominal |-> ecc["NACKL"]]
       [] legs = {"SHELL"} /\ isFee -> [token |-> "SHELL_FEE", nominal |-> ecc["SHELL"]]
       [] legs = {"SHELL"} /\ ~isFee /\ ecc["SHELL"] >= GAS_DEPOSIT ->
            [token |-> "SHELL", nominal |-> ecc["SHELL"] - GAS_DEPOSIT]
       [] OTHER -> NULL

Sells(ecc, isFee) ==
  VoucherOf(ecc, isFee) # NULL /\ VoucherOf(ecc, isFee).nominal \in Nominals

\* A refused payment bounces.
GenerateVoucher(r, ecc, isFee) ==
  IF ~Sells(ecc, isFee) THEN r
  ELSE [r EXCEPT !.vouchers = Append(@, VoucherOf(ecc, isFee)),
                 !.ecc = [c \in Currencies |-> @[c] + ecc[c]]]

-----------------------------------------------------------------------------
(* deployPrivateNote, sendEccShellToPrivateNote *)

NewNote(voucher, key) ==
  [owner |-> key, token |-> voucher.token, value |-> voucher.nominal,
   gas |-> GAS_DEPOSIT, native |-> FALSE]

\* A message with SHELL of the contract.  Without enough of it nothing is sent.
SendShell(r, shell, m) ==
  IF r.ecc["SHELL"] < shell THEN r
  ELSE [r EXCEPT !.ecc["SHELL"] = @ - shell, !.transit = @ (+) SetToBag({m})]

DeployPrivateNote(r, v, key) ==
  IF r.vouchers[v].token = "SHELL_FEE" THEN r
  ELSE SendShell(r, GAS_DEPOSIT, [to |-> "newNote", voucher |-> v, key |-> key,
                                  shell |-> GAS_DEPOSIT])

\* Only fee vouchers.  The gas goes to the note through the voucher's nullifier.
SendEccShell(r, v, note) ==
  IF r.vouchers[v].token # "SHELL_FEE" THEN r
  ELSE SendShell(r, r.vouchers[v].nominal,
                 [to |-> "nullifier", voucher |-> v, note |-> note,
                  shell |-> r.vouchers[v].nominal])

SendNative(r, note) == [r EXCEPT !.transit = @ (+) SetToBag({[to |-> "native", note |-> note]})]

-----------------------------------------------------------------------------
(* Constructors of PrivateNote and Nullifier, and plain transfers.  Both   *)
(* addresses follow from the voucher: a second message for it finds the    *)
(* contract there and bounces with its SHELL.                              *)

NoteArrives(r, m) ==
  IF NoteExists(r, m.voucher) THEN [r EXCEPT !.ecc["SHELL"] = @ + m.shell]
  ELSE [r EXCEPT !.notes = (m.voucher :> NewNote(r.vouchers[m.voucher], m.key)) @@ @]

NullifierArrives(r, m) ==
  IF m.voucher \in r.nullifiers THEN [r EXCEPT !.ecc["SHELL"] = @ + m.shell]
  ELSE [r EXCEPT !.nullifiers = @ \cup {m.voucher},
                 !.transit = @ (+) SetToBag({[to |-> "gas", note |-> m.note, shell |-> m.shell]})]

Delivered(r, m) ==
  LET s == [r EXCEPT !.transit = @ (-) SetToBag({m})]
  IN CASE m.to = "newNote" -> NoteArrives(s, m)
       [] m.to = "nullifier" -> NullifierArrives(s, m)
       [] m.to = "gas" -> [s EXCEPT !.notes[m.note].gas = @ + m.shell]
       [] m.to = "native" -> [s EXCEPT !.notes[m.note].native = TRUE]

-----------------------------------------------------------------------------
(* What the contract owes: the deposits of its notes, what the vouchers    *)
(* that are still out can ask for, and the budget it was given; and what   *)
(* is on its way.                                                          *)

Outstanding(r) == {v \in DOMAIN r.vouchers : v \notin DOMAIN r.notes \cup r.nullifiers}
Claim(voucher, c) ==
  CASE voucher.token = "SHELL_FEE" -> IF c = "SHELL" THEN voucher.nominal ELSE 0
    [] OTHER -> (IF c = voucher.token THEN voucher.nominal ELSE 0)
                  + (IF c = "SHELL" THEN GAS_DEPOSIT ELSE 0)

Owed(r, c) ==
  MapThenSumSet(LAMBDA v : Claim(r.vouchers[v], c), Outstanding(r))
    + MapThenSumSet(LAMBDA v : IF r.notes[v].token = c THEN r.notes[v].value ELSE 0,
                    DOMAIN r.notes)
    + (IF c = "SHELL" THEN r.budget ELSE 0)

\* SHELL of messages that do as pred says, on their way.
OnTheWay(r, pred(_)) ==
  MapThenSumSet(LAMBDA m : r.transit[m] * m.shell, {m \in DOMAIN r.transit : pred(m)})

\* SHELL that comes back if the voucher was used meanwhile.
Pledged(r) == OnTheWay(r, LAMBDA m : m.to \in {"newNote", "nullifier"})
Coming(r, n) == OnTheWay(r, LAMBDA m : m.to \in {"nullifier", "gas"} /\ m.note = n)
==============================================================================
