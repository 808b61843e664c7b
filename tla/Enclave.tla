-------------------------------- MODULE Enclave --------------------------------
(***************************************************************************)
(* tee/src/attestation.rs and the start of tee/src/main.rs: the key the    *)
(* enclave signs settlements with, sealed to a file that only the same     *)
(* build can read, and its quote (tee/src/routes/attestation.rs), by which *)
(* the contract learns the key.  The enclave crashes, its build is         *)
(* replaced, the operator deletes the file, and the owner changes the      *)
(* contract's settings, all while settlements wait to be mined.            *)
(*                                                                         *)
(* Builds, the sealing of the file and the quote belong to SGX and Gramine,*)
(* outside src/.  What the enclave trades is in Tee.                       *)
(***************************************************************************)
EXTENDS DePLOB

CONSTANTS Builds,              \* MRENCLAVE values
          FirstBuild,          \* the build installed first, which the owner trusts
          InitialDeposits,     \* notes in the pool at first
          MaxRestarts,         \* bounds: on crashes and exits,
          MaxUpgrades,         \* installations of another build,
          MaxDeletions,        \* deletions of the sealed file,
          MaxOwnerCalls,       \* calls of the owner,
          MaxSettlements       \* and settlements signed

ASSUME EnclaveAssumption ==
  /\ FirstBuild \in Builds
  /\ NONE \notin Builds \cup [build : Builds, key : Keys, whole : BOOLEAN]
  /\ Quotes = [mrenclave : Builds, key : Keys \cup {NONE}]

VARIABLES build,               \* the build that is installed
          sealed,              \* /sealed/attestation.key, or NONE
          boot,                \* how far the program has come
          signer,              \* the provider's key, or NONE
          reportData,          \* /dev/attestation/user_report_data
          quotes,              \* the quotes GET /v1/attestation/quote returned
          drawn,               \* the keys drawn so far
          txs,                 \* settlements sent and not mined
          count,               \* what the bounds count
          settled,             \* history: the signers of the settlements accepted
          trusted,             \* history: the builds the owner has trusted
          byHand               \* history: the keys the owner has set itself

enclave == << build, sealed, boot, signer, reportData, drawn >>
history == << settled, trusted, byHand >>
enclaveVars == << poolVars, enclave, quotes, txs, count, history >>

EnclaveInit ==
  /\ PoolHolding(InitialDeposits)
  /\ \E verifier \in Verifiers :
       admin = [Deployed EXCEPT !.supportedTokens = Tokens, !.requireAttestation = TRUE,
                                !.trustedMrEnclave = FirstBuild, !.dcapVerifier = verifier]
  /\ build = FirstBuild
  /\ sealed = NONE
  /\ boot = "down" /\ signer = NONE /\ reportData = NONE
  /\ quotes = {} /\ drawn = {} /\ txs = {}
  /\ count = [restarts |-> 0, upgrades |-> 0, deletions |-> 0, ownerCalls |-> 0, signed |-> 0]
  /\ settled = {} /\ trusted = {FirstBuild} /\ byHand = {}

-------------------------------------------------------------------------------
(* main and from_sealed *)

OffChain == UNCHANGED << poolVars, txs, history >>

Counts(what, bound) == count[what] < bound /\ count' = [count EXCEPT ![what] = @ + 1]

\* Mutant of CanRead: the file is not bound to the build.
CanReadAny(file) == file.whole

\* What the file system decrypts and the parser accepts: a file that was written
\* to its end, by the same build.
CanRead(file) == file.whole /\ file.build = build

\* Mutant of DrawKey: the key is used before it is written.
DrawKeyAndServe ==
  /\ boot = "down" /\ sealed = NONE
  /\ \E key \in Keys \ drawn :
       /\ drawn' = drawn \cup {key}
       /\ signer' = key
       /\ sealed' = [build |-> build, key |-> key, whole |-> FALSE]
  /\ boot' = "sealed"
  /\ UNCHANGED << build, reportData, quotes, count >> /\ OffChain

\* There is no file: draw a key and begin to write it.
DrawKey ==
  /\ boot = "down" /\ sealed = NONE
  /\ \E key \in Keys \ drawn :
       /\ drawn' = drawn \cup {key}
       /\ signer' = key
       /\ sealed' = [build |-> build, key |-> key, whole |-> FALSE]
  /\ boot' = "writing"
  /\ UNCHANGED << build, reportData, quotes, count >> /\ OffChain

KeyWritten ==
  /\ boot = "writing"
  /\ sealed' = [sealed EXCEPT !.whole = TRUE]
  /\ boot' = "sealed"
  /\ UNCHANGED << build, signer, reportData, drawn, quotes, count >> /\ OffChain

LoadKey ==
  /\ boot = "down" /\ sealed # NONE
  /\ CanRead(sealed)
  /\ signer' = sealed.key
  /\ boot' = "sealed"
  /\ UNCHANGED << build, sealed, reportData, drawn, quotes, count >> /\ OffChain

\* Mutant of Panic: a file that cannot be read is replaced.
PanicNot ==
  /\ boot = "down" /\ sealed # NONE
  /\ ~CanRead(sealed)
  /\ \E key \in Keys \ drawn :
       /\ drawn' = drawn \cup {key}
       /\ signer' = key
       /\ sealed' = [build |-> build, key |-> key, whole |-> FALSE]
  /\ boot' = "writing"
  /\ UNCHANGED << build, reportData, quotes, count >> /\ OffChain

\* There is a file and it cannot be read: main's expect ends the program.
Panic ==
  /\ boot = "down" /\ sealed # NONE
  /\ ~CanRead(sealed)
  /\ boot' = "panicked"
  /\ UNCHANGED << build, sealed, signer, reportData, drawn, quotes, count >> /\ OffChain

\* write_report_data, whose failure main ignores; then the routes are served.
Serve ==
  /\ boot = "sealed"
  /\ reportData' \in {signer, NONE}
  /\ boot' = "up"
  /\ UNCHANGED << build, sealed, signer, drawn, quotes, count >> /\ OffChain

\* The quote is of this build and of the report data as it is.
GetQuote ==
  /\ boot = "up"
  /\ quotes' = quotes \cup {[mrenclave |-> build, key |-> reportData]}
  /\ UNCHANGED << enclave, count >> /\ OffChain

\* A crash at any moment, or the exit after a panic; what was sent stays sent.
Stop ==
  /\ boot # "down"
  /\ Counts("restarts", MaxRestarts)
  /\ boot' = "down" /\ signer' = NONE /\ reportData' = NONE
  /\ UNCHANGED << build, sealed, drawn, quotes >> /\ OffChain

\* The operator installs another build, or deletes the sealed file.
Upgrade ==
  /\ boot = "down"
  /\ Counts("upgrades", MaxUpgrades)
  /\ build' \in Builds \ {build}
  /\ UNCHANGED << sealed, boot, signer, reportData, drawn, quotes >> /\ OffChain

DeleteKeyFile ==
  /\ boot = "down" /\ sealed # NONE
  /\ Counts("deletions", MaxDeletions)
  /\ sealed' = NONE
  /\ UNCHANGED << build, boot, signer, reportData, drawn, quotes >> /\ OffChain

-------------------------------------------------------------------------------
(* Settlements and the contract *)

\* Sign a settlement of all that two notes hold, and send it.  The secrets of
\* its notes are fresh.
SignSettlement ==
  /\ boot = "up"
  /\ Counts("signed", MaxSettlements)
  /\ \E buyer, seller \in commitments :
       /\ buyer.token # seller.token
       /\ LET nn == MAX_LEAVES + 2 * count.signed
              s  == Settlement(Nullifier(buyer), Nullifier(seller),
                               Note(nn + 1, seller.token, seller.amount),
                               Note(nn + 2, buyer.token, buyer.amount))
          IN  txs' = txs \cup {[settlement |-> s, attestation |-> Signed(signer, s), build |-> build]}
  /\ UNCHANGED << poolVars, enclave, quotes, history >>

\* From the operator's account the program was configured with.
MineSettlement(tx) ==
  /\ txs' = txs \ {tx}
  /\ \/ /\ SettleMatch(Operator, tx.settlement, tx.attestation)
        /\ settled' = settled \cup {[build |-> tx.build, key |-> tx.attestation.signer]}
     \/ /\ ~SettleAccepted(Operator, tx.settlement, tx.attestation)
        /\ UNCHANGED << poolVars, settled >>
  /\ UNCHANGED << enclave, quotes, count, trusted, byHand >>

OwnerCalls ==
  /\ Counts("ownerCalls", MaxOwnerCalls)
  /\ OwnerNext
  /\ trusted' = trusted \cup {admin'.trustedMrEnclave}
  /\ byHand' = IF admin'.enclaveSigningKey = admin.enclaveSigningKey THEN byHand
               ELSE byHand \cup {admin'.enclaveSigningKey}
  /\ UNCHANGED << enclave, quotes, txs, settled >>

\* Anybody may hand any quote that was ever served to the contract.
Register ==
  /\ \E quote \in quotes : RegisterEnclave(quote)
  /\ UNCHANGED << enclave, quotes, txs, count, history >>

Withdrawal ==
  /\ WithdrawBySomeone
  /\ UNCHANGED << enclave, quotes, txs, count, history >>

EnclaveNext ==
  \/ DrawKey \/ KeyWritten \/ LoadKey \/ Panic \/ Serve \/ GetQuote
  \/ Stop \/ Upgrade \/ DeleteKeyFile
  \/ SignSettlement
  \/ \E tx \in txs : MineSettlement(tx)
  \/ OwnerCalls
  \/ Register
  \/ Withdrawal

EnclaveSpec == EnclaveInit /\ [][EnclaveNext]_enclaveVars

-------------------------------------------------------------------------------
(* What is checked *)

\* No signature is made and no quote served with a key that a crash could lose:
\* from before the routes are up the signer is whole in the file of the build
\* that runs, so every later start of that build has it again.
SignerIsSealed ==
  boot \in {"sealed", "up"} =>
    sealed = [build |-> build, key |-> signer, whole |-> TRUE]

\* Over any crashes and upgrades there is one key until the operator deletes its
\* file: whatever quote of it was served, the file still holds that key for the
\* build of the quote, so a registration stays good.
OneKeyUntilDeleted ==
  count.deletions = 0 =>
    \A quote \in quotes :
      quote.key # NONE => sealed = [build |-> quote.mrenclave, key |-> quote.key, whole |-> TRUE]

\* A settlement is accepted only from a build the owner trusted at some time, or
\* from a key the owner set itself: across drawing, sealing, quoting,
\* registering, rotating and mining, a key never speaks for another build.
SettledUnderTrust ==
  \A signature \in settled : signature.build \in trusted \/ signature.key \in byHand

===============================================================================
