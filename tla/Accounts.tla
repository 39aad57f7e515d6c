------------------------------ MODULE Accounts -------------------------------
(***************************************************************************)
(* The API's custody of notes: accounts and API keys, seeded at start from *)
(* the file mint_pn_pool writes or registered by POST /accounts, and the   *)
(* authentication of requests.  Secrets are sealed under the key (KEK) the *)
(* API was started with.  An account is named by its note's address; the   *)
(* deposit identifier hash is a function of it.                            *)
(***************************************************************************)
EXTENDS NoteTools, Integers

CONSTANTS Clients,         \* clients that register a note
          KEKs,
          DEFAULT_RECV, MAX_RECV, FORWARD_SKEW

VARIABLES accounts, \* [note -> row of accounts]
          apiKeys,  \* rows of api_keys
          api,      \* the KEK the API runs with, NULL while it is down
          client,   \* a registration in progress or answered
          issued    \* credentials in the hands of clients

accountVars == <<accounts, apiKeys, api, client, issued>>

Idle == [pc |-> "idle", note |-> NULL, key |-> NULL, got |-> NULL]

AccountsInit ==
  /\ accounts = [n \in {} |-> NULL] /\ apiKeys = {}
  /\ api = NULL /\ client = [c \in Clients |-> Idle] /\ issued = {}

-----------------------------------------------------------------------------
(* Rows. *)

Account(key, kek) == [key |-> key, kek |-> kek, disabled |-> FALSE]
ApiKey(name, note, secret, kek) ==
  [name |-> name, note |-> note, secret |-> secret, kek |-> kek, disabled |-> FALSE]
Active(name) == {k \in apiKeys : k.name = name /\ ~k.disabled}

\* crypto::derive_api_secret
DeriveApiSecret(kek, index) == <<"derived", kek, index>>

-----------------------------------------------------------------------------
(* Start of the API, with seeding. *)

\* note_to_seed_account: the place in the file names the key.
SeedKey(i, kek) ==
  ApiKey(<<"seed", i>>, disk["seedNotes"][i].address, DeriveApiSecret(kek, i), kek)

\* upsert_account: an account that exists is kept.
SeededAccounts(kek) ==
  LET seeds == disk["seedNotes"]
      new == {s \in Range(seeds) : s.address \notin DOMAIN accounts}
  IN [n \in DOMAIN accounts \cup {s.address : s \in new} |->
        IF n \in DOMAIN accounts THEN accounts[n]
        ELSE Account((CHOOSE s \in new : s.address = n).key, kek)]

\* upsert_api_key: only an active key of that name keeps the new one out.
SeededKeys(kek) ==
  apiKeys \cup {SeedKey(i, kek) : i \in
    {j \in DOMAIN disk["seedNotes"] : Active(<<"seed", j>>) = {}}}

\* What the operator hands out for a file: the i-th key for the i-th note.
SeedCredentials(kek) ==
  {[name |-> <<"seed", i>>, secret |-> DeriveApiSecret(kek, i), kek |-> kek,
    note |-> disk["seedNotes"][i].address] : i \in DOMAIN disk["seedNotes"]}

\* run, with auth.seed_accounts: one transaction before the API serves.
StartSeeding(kek) ==
  /\ api = NULL /\ Count("starts") /\ Readable("seedNotes")
  /\ accounts' = SeededAccounts(kek) /\ apiKeys' = SeededKeys(kek)
  /\ issued' = issued \cup {cr \in SeedCredentials(kek) : Active(cr.name) = {}}
  /\ api' = kek
  /\ UNCHANGED <<toolVars, client>>

\* Without it; with it and a file that is missing or cut short, run returns the error.
StartWithout(kek) ==
  /\ api = NULL /\ Count("starts") /\ api' = kek
  /\ UNCHANGED <<toolVars, accounts, apiKeys, client, issued>>

ShutDown ==
  /\ api # NULL /\ plan.starts > 0 /\ api' = NULL
  /\ client' = [c \in Clients |-> IF client[c].pc = "read" THEN Idle ELSE client[c]]
  /\ UNCHANGED <<toolVars, plan, accounts, apiKeys, issued>>

-----------------------------------------------------------------------------
(* POST /api/v1/accounts *)

\* RegisterAccountUseCase: the owner key of the note is read from the chain; a note
\* that is not there (AccountNotDeployed), another owner (KeyDoesNotOwnNote) and a
\* failing gateway (MarketInconsistent) are refused.
ReadOwner(c, note, key) ==
  /\ api # NULL /\ client[c].pc = "idle" /\ Count("requests")
  /\ \/ /\ NoteExists(root, note) /\ root.notes[note].owner = key
        /\ client' = [client EXCEPT ![c] = [Idle EXCEPT !.pc = "read", !.note = note, !.key = key]]
     \/ UNCHANGED client
  /\ UNCHANGED <<toolVars, accounts, apiKeys, api, issued>>

RegisteredName(c) == <<"registered", c, client[c].note>>
RandomSecret(c) == <<"random", c, client[c].note>>

Credential(c) ==
  [name |-> RegisteredName(c), secret |-> RandomSecret(c), kek |-> api, note |-> client[c].note]

\* PostgresAccountRegistry::register: account and key in one transaction, refused
\* with NoteAlreadyRegistered when the note has an account.
Register(c) ==
  IF client[c].note \in DOMAIN accounts
  THEN client' = [client EXCEPT ![c] = Idle] /\ UNCHANGED <<accounts, apiKeys>>
  ELSE /\ accounts' = (client[c].note :> Account(client[c].key, api)) @@ accounts
       /\ apiKeys' = apiKeys \cup {ApiKey(RegisteredName(c), client[c].note, RandomSecret(c), api)}
       /\ client' = [client EXCEPT ![c].pc = "answered", ![c].got = Credential(c)]

\* The answer shows the secret once; it may be lost on the way.
InsertAccount(c) ==
  /\ api # NULL /\ client[c].pc = "read"
  /\ Register(c)
  /\ \/ issued' = issued \cup ({client'[c].got} \ {NULL})
     \/ UNCHANGED issued
  /\ UNCHANGED <<toolVars, plan, api>>

\* An operator disables a key or an account.
Disable ==
  /\ Count("disabled")
  /\ \/ \E k \in apiKeys : apiKeys' = (apiKeys \ {k}) \cup {[k EXCEPT !.disabled = TRUE]}
                           /\ UNCHANGED accounts
     \/ \E n \in DOMAIN accounts : accounts' = [accounts EXCEPT ![n].disabled = TRUE]
                                   /\ UNCHANGED apiKeys
  /\ UNCHANGED <<toolVars, api, client, issued>>

-----------------------------------------------------------------------------
(* Authentication. A query is a sequence of <<name, value>>; a signature is *)
(* the secret with the text it was made over.                               *)

\* Without the signature, stably sorted by name (names here compare as Rank).
Rank(name) == CHOOSE i \in 1..4 : <<"limit", "recvWindow", "signature", "timestamp">>[i] = name
CanonicalQueryString(query) ==
  LET pairs == SelectSeq(query, LAMBDA p : p[1] # "signature")
  IN SortSeq(pairs, LAMBDA p, q : Rank(p[1]) < Rank(q[1]))

CheckRecvWindow(delta, recv) == -FORWARD_SKEW <= delta /\ delta <= recv

\* Mutant: the account's own switch is not looked at.
LoadCredential_KeyOnly(name) == Active(name)

LoadCredential(name) == {k \in Active(name) : ~accounts[k.note].disabled}

Refused(error) == [error |-> error, note |-> NULL]

\* The note a request acts for, or the error; age: now - timestamp.
Authenticate(req) ==
  LET recv == IF req.recv = NULL THEN DEFAULT_RECV
              ELSE IF req.recv > MAX_RECV THEN MAX_RECV ELSE req.recv
      row == CHOOSE k \in LoadCredential(req.apiKey) : TRUE
  IN IF LoadCredential(req.apiKey) = {} THEN Refused("AuthRequired")
     ELSE IF ~CheckRecvWindow(req.age, recv) THEN Refused("TimestampOutsideRecvWindow")
     ELSE IF row.kek # api THEN Refused("Unexpected")
     ELSE IF req.signature # <<row.secret, CanonicalQueryString(req.query)>>
          THEN Refused("InvalidSignature")
     ELSE IF accounts[row.note].kek # api THEN Refused("Unexpected")
     ELSE [error |-> "OK", note |-> row.note]
==============================================================================
