----------------------------- MODULE EnclaveProofs -----------------------------
(***************************************************************************)
(* Proofs about Enclave for any builds, keys, deposits and bounds: no key  *)
(* that a crash could lose is ever used, and no key ever speaks for a build*)
(* that it was not drawn in.                                               *)
(***************************************************************************)
EXTENDS Enclave, TLAPS

\* The running program's key is the one in the file of its build, and the quotes
\* it may serve name that key or none.
RunningKey ==
  /\ boot \in {"down", "writing", "sealed", "up", "panicked"}
  /\ boot \in {"writing", "sealed", "up"} => signer \in drawn
  /\ boot = "writing" => sealed = [build |-> build, key |-> signer, whole |-> FALSE]
  /\ boot \in {"sealed", "up"} => sealed = [build |-> build, key |-> signer, whole |-> TRUE]
  /\ boot = "up" => reportData \in {signer, NONE}

CountsAreNat == count \in [{"restarts", "upgrades", "deletions", "ownerCalls", "signed"} -> Nat]

\* A key was drawn in one build, origin[key], which is the build named with it
\* wherever it goes: into the file, ...
FileFrom(origin) ==
  sealed # NONE =>
    /\ sealed \in [build : Builds, key : drawn, whole : BOOLEAN]
    /\ sealed.build = origin[sealed.key]

\* ... the quotes, ...
QuotesFrom(origin) ==
  \A quote \in quotes :
    quote.key # NONE => quote.key \in drawn /\ quote.mrenclave = origin[quote.key]

\* ... the settlements that wait, ...
SignedFrom(origin) ==
  \A tx \in txs :
    /\ tx.attestation # Unsigned
    /\ tx.attestation.signer \in drawn
    /\ tx.build = origin[tx.attestation.signer]

\* ... and the contract, unless the owner put it there.
RegisteredFrom(origin) ==
  \/ admin.enclaveSigningKey \in {NONE} \cup byHand
  \/ admin.enclaveSigningKey \in drawn /\ origin[admin.enclaveSigningKey] \in trusted

KeysFrom(origin) ==
  FileFrom(origin) /\ QuotesFrom(origin) /\ SignedFrom(origin) /\ RegisteredFrom(origin)

\* The inductive invariant.  That one function says where every key was drawn is
\* what ties a signature to the quote its key was registered with, however many
\* restarts, upgrades and registrations lie between the two.
EnclaveInv ==
  /\ build \in Builds /\ drawn \subseteq Keys
  /\ RunningKey
  /\ CountsAreNat
  /\ DOMAIN admin = DOMAIN Deployed
  /\ admin.trustedMrEnclave \in trusted
  /\ \E origin \in [Keys -> Builds] : KeysFrom(origin)
  /\ OneKeyUntilDeleted
  /\ SettledUnderTrust

-------------------------------------------------------------------------------

\* The absence of a file is not a file.
LEMMA NoneIsNoFile ==
  ASSUME NEW b \in Builds, NEW key \in Keys, NEW whole \in BOOLEAN
  PROVE  [build |-> b, key |-> key, whole |-> whole] # NONE
<1>1. [build |-> b, key |-> key, whole |-> whole] \in [build : Builds, key : Keys, whole : BOOLEAN]
  OBVIOUS
<1>2. QED
  BY <1>1, EnclaveAssumption

LEMMA EnclaveInvInit == EnclaveInit => EnclaveInv
<1> SUFFICES ASSUME EnclaveInit PROVE EnclaveInv
  OBVIOUS
<1> USE EnclaveAssumption
<1>1. build \in Builds /\ drawn \subseteq Keys /\ RunningKey
  BY DEF EnclaveInit, RunningKey
<1>2. CountsAreNat
  BY DEF EnclaveInit, CountsAreNat
<1>3. /\ DOMAIN admin = DOMAIN Deployed
      /\ admin.trustedMrEnclave \in trusted
      /\ admin.enclaveSigningKey = NONE
  BY DEF EnclaveInit, Deployed
<1>4. KeysFrom([key \in Keys |-> FirstBuild])
  BY <1>3 DEF EnclaveInit, KeysFrom, FileFrom, QuotesFrom, SignedFrom, RegisteredFrom
<1>5. OneKeyUntilDeleted /\ SettledUnderTrust
  BY DEF EnclaveInit, OneKeyUntilDeleted, SettledUnderTrust
<1>6. [key \in Keys |-> FirstBuild] \in [Keys -> Builds]
  OBVIOUS
<1>7. QED
  BY <1>1, <1>2, <1>3, <1>4, <1>5, <1>6 DEF EnclaveInv

\* A new key: the function that says where keys were drawn changes at that key
\* only, which nothing names yet.
LEMMA EnclaveInvDrawKey == ASSUME EnclaveInv, DrawKey PROVE EnclaveInv'
<1>1. PICK key \in Keys \ drawn :
        /\ drawn' = drawn \cup {key}
        /\ signer' = key
        /\ sealed' = [build |-> build, key |-> key, whole |-> FALSE]
  BY DEF DrawKey
<1>2. /\ boot' = "writing" /\ sealed = NONE
      /\ UNCHANGED << build, reportData, quotes, count, admin, txs, settled, trusted, byHand >>
  BY DEF DrawKey, OffChain, poolVars, history
<1>3. PICK origin \in [Keys -> Builds] : KeysFrom(origin)
  BY DEF EnclaveInv
<1>4. build \in Builds /\ drawn \subseteq Keys
  BY DEF EnclaveInv
<1>5. PICK origin2 \in [Keys -> Builds] :
        origin2[key] = build /\ \A k \in drawn : origin2[k] = origin[k]
  <2>1. [origin EXCEPT ![key] = build] \in [Keys -> Builds]
    BY <1>4
  <2>2. QED
    BY <1>4, <2>1
<1>6. KeysFrom(origin2)'
  <2>1. FileFrom(origin2)'
    BY <1>1, <1>2, <1>4, <1>5 DEF FileFrom
  <2>2. QuotesFrom(origin2)'
    BY <1>1, <1>2, <1>3, <1>5 DEF KeysFrom, QuotesFrom
  <2>3. SignedFrom(origin2)'
    BY <1>1, <1>2, <1>3, <1>5 DEF KeysFrom, SignedFrom
  <2>4. RegisteredFrom(origin2)'
    BY <1>1, <1>2, <1>3, <1>5 DEF KeysFrom, RegisteredFrom
  <2>5. QED
    BY <2>1, <2>2, <2>3, <2>4 DEF KeysFrom
<1>7. RunningKey'
  BY <1>1, <1>2 DEF RunningKey
<1>8. OneKeyUntilDeleted'
  <2>1. ASSUME NEW quote \in quotes, quote.key # NONE PROVE count.deletions # 0
    <3>1. quote.key \in drawn /\ quote.mrenclave \in Builds
      <4>1. quote.key \in drawn /\ quote.mrenclave = origin[quote.key]
        BY <1>3, <2>1 DEF KeysFrom, QuotesFrom
      <4>2. QED
        BY <1>4, <4>1
    <3>2. sealed # [build |-> quote.mrenclave, key |-> quote.key, whole |-> TRUE]
      BY <1>2, <1>4, <3>1, NoneIsNoFile
    <3>3. QED
      BY <2>1, <3>2 DEF EnclaveInv, OneKeyUntilDeleted
  <2>2. QED
    BY <1>2, <2>1 DEF OneKeyUntilDeleted
<1>9. CountsAreNat' /\ SettledUnderTrust'
  BY <1>2 DEF EnclaveInv, CountsAreNat, SettledUnderTrust
<1>10. QED
  BY <1>1, <1>2, <1>4, <1>5, <1>6, <1>7, <1>8, <1>9 DEF EnclaveInv

\* The steps that change nothing but the program's own state.
LEMMA EnclaveInvBoot ==
  ASSUME EnclaveInv, KeyWritten \/ LoadKey \/ Panic \/ Serve
  PROVE  EnclaveInv'
<1>1. UNCHANGED << build, drawn, quotes, count, admin, txs, settled, trusted, byHand >>
  BY DEF KeyWritten, LoadKey, Panic, Serve, OffChain, poolVars, history
<1>2. PICK origin \in [Keys -> Builds] : KeysFrom(origin)
  BY DEF EnclaveInv
<1>3. RunningKey
  BY DEF EnclaveInv
<1>4. \/ UNCHANGED sealed
      \/ /\ boot = "writing"
         /\ sealed  = [build |-> build, key |-> signer, whole |-> FALSE]
         /\ sealed' = [build |-> build, key |-> signer, whole |-> TRUE]
  BY <1>3 DEF KeyWritten, LoadKey, Panic, Serve, RunningKey
<1>5. RunningKey'
  <2>1. CASE KeyWritten
    BY <1>1, <1>3, <1>4, <2>1 DEF KeyWritten, RunningKey
  <2>2. CASE LoadKey
    <3>1. /\ sealed \in [build : Builds, key : drawn, whole : BOOLEAN]
          /\ sealed.whole /\ sealed.build = build
      BY <1>2, <2>2 DEF LoadKey, CanRead, KeysFrom, FileFrom
    <3>2. sealed = [build |-> build, key |-> sealed.key, whole |-> TRUE]
      BY <3>1
    <3>3. QED
      BY <1>1, <2>2, <3>1, <3>2 DEF LoadKey, RunningKey
  <2>3. CASE Panic
    BY <1>1, <2>3 DEF Panic, RunningKey
  <2>4. CASE Serve
    BY <1>1, <1>3, <2>4 DEF Serve, RunningKey
  <2>5. QED
    BY <2>1, <2>2, <2>3, <2>4
<1>6. KeysFrom(origin)'
  <2>1. FileFrom(origin)'
    <3>1. CASE UNCHANGED sealed
      BY <1>1, <1>2, <3>1 DEF KeysFrom, FileFrom
    <3>2. CASE ~UNCHANGED sealed
      <4>1. /\ sealed  = [build |-> build, key |-> signer, whole |-> FALSE]
            /\ sealed' = [build |-> build, key |-> signer, whole |-> TRUE]
            /\ signer \in drawn
        BY <1>3, <1>4, <3>2 DEF RunningKey
      <4>2. build \in Builds /\ drawn \subseteq Keys
        BY DEF EnclaveInv
      <4>3. sealed # NONE
        BY <4>1, <4>2, NoneIsNoFile
      <4>4. sealed' \in [build : Builds, key : drawn, whole : BOOLEAN]
        BY <4>1, <4>2
      <4>5. sealed.build = build /\ sealed.key = signer /\ sealed'.build = build /\ sealed'.key = signer
        BY <4>1
      <4>6. QED
        BY <1>1, <1>2, <4>3, <4>4, <4>5 DEF KeysFrom, FileFrom
    <3>3. QED
      BY <3>1, <3>2
  <2>2. QED
    BY <1>1, <1>2, <2>1 DEF KeysFrom, QuotesFrom, SignedFrom, RegisteredFrom
<1>7. OneKeyUntilDeleted'
  BY <1>1, <1>4 DEF EnclaveInv, OneKeyUntilDeleted
<1>8. CountsAreNat' /\ SettledUnderTrust'
  BY <1>1 DEF EnclaveInv, CountsAreNat, SettledUnderTrust
<1>9. QED
  BY <1>1, <1>5, <1>6, <1>7, <1>8 DEF EnclaveInv

\* The quote names the running program's key, which the file of this build holds.
LEMMA EnclaveInvGetQuote == ASSUME EnclaveInv, GetQuote PROVE EnclaveInv'
<1> DEFINE quote == [mrenclave |-> build, key |-> reportData]
<1>1. /\ quotes' = quotes \cup {quote} /\ boot = "up"
      /\ UNCHANGED << build, sealed, boot, signer, reportData, drawn, count, admin,
                      txs, settled, trusted, byHand >>
  BY DEF GetQuote, OffChain, poolVars, enclave, history
<1>2. PICK origin \in [Keys -> Builds] : KeysFrom(origin)
  BY DEF EnclaveInv
<1>3. /\ sealed = [build |-> build, key |-> signer, whole |-> TRUE]
      /\ signer \in drawn /\ drawn \subseteq Keys /\ build \in Builds
      /\ reportData \in {signer, NONE}
  BY <1>1 DEF EnclaveInv, RunningKey
<1>4. sealed # NONE /\ sealed.key = signer /\ sealed.build = build
  BY <1>3, NoneIsNoFile
<1>5. KeysFrom(origin)'
  <2>1. origin[signer] = build
    BY <1>2, <1>4 DEF KeysFrom, FileFrom
  <2>2. QuotesFrom(origin)'
    BY <1>1, <1>2, <1>3, <2>1 DEF KeysFrom, QuotesFrom
  <2>3. QED
    BY <1>1, <1>2, <2>2 DEF KeysFrom, FileFrom, SignedFrom, RegisteredFrom
<1>6. OneKeyUntilDeleted'
  <2>1. ASSUME NEW q \in quotes', q.key # NONE, count'.deletions = 0
        PROVE  sealed' = [build |-> q.mrenclave, key |-> q.key, whole |-> TRUE]
    <3>1. CASE q \in quotes
      BY <1>1, <2>1, <3>1 DEF EnclaveInv, OneKeyUntilDeleted
    <3>2. CASE q = quote
      BY <1>1, <1>3, <2>1, <3>2
    <3>3. QED
      BY <1>1, <3>1, <3>2
  <2>2. QED
    BY <2>1 DEF OneKeyUntilDeleted
<1>7. RunningKey'
  BY <1>1 DEF EnclaveInv, RunningKey
<1>8. CountsAreNat' /\ SettledUnderTrust'
  BY <1>1 DEF EnclaveInv, CountsAreNat, SettledUnderTrust
<1>9. QED
  BY <1>1, <1>3, <1>5, <1>6, <1>7, <1>8 DEF EnclaveInv

\* What happens to a program that is down, or ends it.
LEMMA EnclaveInvOperator ==
  ASSUME EnclaveInv, Stop \/ Upgrade \/ DeleteKeyFile
  PROVE  EnclaveInv'
<1>1. /\ UNCHANGED << drawn, quotes, admin, txs, settled, trusted, byHand >>
      /\ boot' = "down" /\ build' \in Builds
  BY DEF EnclaveInv, Stop, Upgrade, DeleteKeyFile, OffChain, poolVars, history
<1>2. PICK origin \in [Keys -> Builds] : KeysFrom(origin)
  BY DEF EnclaveInv
<1>3. CountsAreNat' /\ (count'.deletions = 0 => count.deletions = 0 /\ UNCHANGED sealed)
  <2>1. CASE Stop
    BY <2>1 DEF EnclaveInv, Stop, Counts, CountsAreNat
  <2>2. CASE Upgrade
    BY <2>2 DEF EnclaveInv, Upgrade, Counts, CountsAreNat
  <2>3. CASE DeleteKeyFile
    BY <2>3 DEF EnclaveInv, DeleteKeyFile, Counts, CountsAreNat
  <2>4. QED
    BY <2>1, <2>2, <2>3
<1>4. KeysFrom(origin)'
  <2>1. sealed' = NONE \/ UNCHANGED sealed
    BY DEF Stop, Upgrade, DeleteKeyFile
  <2>2. FileFrom(origin)'
    BY <1>1, <1>2, <2>1 DEF KeysFrom, FileFrom
  <2>3. QED
    BY <1>1, <1>2, <2>2 DEF KeysFrom, QuotesFrom, SignedFrom, RegisteredFrom
<1>5. RunningKey'
  BY <1>1 DEF RunningKey
<1>6. OneKeyUntilDeleted' /\ SettledUnderTrust'
  BY <1>1, <1>3 DEF EnclaveInv, OneKeyUntilDeleted, SettledUnderTrust
<1>7. QED
  BY <1>1, <1>3, <1>4, <1>5, <1>6 DEF EnclaveInv

\* Signing: the signer was drawn in this build, which the file says.
LEMMA EnclaveInvSign == ASSUME EnclaveInv, SignSettlement PROVE EnclaveInv'
<1>1. PICK s : txs' = txs \cup {[settlement |-> s, attestation |-> Signed(signer, s), build |-> build]}
  BY DEF SignSettlement
<1>2. /\ boot = "up" /\ Counts("signed", MaxSettlements)
      /\ UNCHANGED << build, sealed, boot, signer, reportData, drawn, quotes, admin,
                      settled, trusted, byHand >>
  BY DEF SignSettlement, poolVars, enclave, history
<1>3. PICK origin \in [Keys -> Builds] : KeysFrom(origin)
  BY DEF EnclaveInv
<1>4. /\ sealed = [build |-> build, key |-> signer, whole |-> TRUE]
      /\ signer \in drawn /\ drawn \subseteq Keys /\ build \in Builds
  BY <1>2 DEF EnclaveInv, RunningKey
<1>5. sealed # NONE /\ sealed.key = signer /\ sealed.build = build
  BY <1>4, NoneIsNoFile
<1>6. origin[signer] = build
  BY <1>3, <1>5 DEF KeysFrom, FileFrom
<1>7. Signed(signer, s) # Unsigned /\ Signed(signer, s).signer = signer
  <2>1. DOMAIN Signed(signer, s) # DOMAIN Unsigned
    BY DEF Signed, Unsigned
  <2>2. QED
    BY <2>1 DEF Signed
<1>8. KeysFrom(origin)'
  <2>1. SignedFrom(origin)'
    BY <1>1, <1>2, <1>3, <1>4, <1>6, <1>7 DEF KeysFrom, SignedFrom
  <2>2. QED
    BY <1>2, <1>3, <2>1 DEF KeysFrom, FileFrom, QuotesFrom, RegisteredFrom
<1>9. CountsAreNat' /\ count'.deletions = count.deletions
  BY <1>2 DEF EnclaveInv, Counts, CountsAreNat
<1>10. RunningKey' /\ OneKeyUntilDeleted' /\ SettledUnderTrust'
  BY <1>2, <1>9 DEF EnclaveInv, RunningKey, OneKeyUntilDeleted, SettledUnderTrust
<1>11. QED
  BY <1>2, <1>4, <1>8, <1>9, <1>10 DEF EnclaveInv

\* Mining: what the contract accepts is signed with the key it has, which the
\* owner set itself or which was drawn in a build the owner trusted.
LEMMA EnclaveInvMine ==
  ASSUME EnclaveInv, NEW tx \in txs, MineSettlement(tx)
  PROVE  EnclaveInv'
<1>1. /\ txs' \subseteq txs
      /\ UNCHANGED << build, sealed, boot, signer, reportData, drawn, quotes, count, admin,
                      trusted, byHand >>
  BY DEF MineSettlement, SettleMatch, poolVars, enclave
<1>2. PICK origin \in [Keys -> Builds] : KeysFrom(origin)
  BY DEF EnclaveInv
<1>3. KeysFrom(origin)'
  BY <1>1, <1>2 DEF KeysFrom, FileFrom, QuotesFrom, SignedFrom, RegisteredFrom
<1>4. SettledUnderTrust'
  <2>1. CASE UNCHANGED settled
    BY <1>1, <2>1 DEF EnclaveInv, SettledUnderTrust
  <2>2. CASE ~UNCHANGED settled
    <3>1. /\ AttestationAccepted(tx.settlement, tx.attestation)
          /\ settled' = settled \cup {[build |-> tx.build, key |-> tx.attestation.signer]}
      BY <2>2 DEF MineSettlement, SettleMatch, SettleAccepted
    <3>2. tx.attestation # Unsigned /\ tx.build = origin[tx.attestation.signer]
      BY <1>2 DEF KeysFrom, SignedFrom
    <3>3. tx.attestation.signer = admin.enclaveSigningKey /\ tx.attestation.signer # NONE
      BY <3>1, <3>2 DEF AttestationAccepted
    <3>4. tx.attestation.signer \in byHand \/ tx.build \in trusted
      BY <1>2, <3>2, <3>3 DEF KeysFrom, RegisteredFrom
    <3>5. QED
      BY <1>1, <3>1, <3>4 DEF EnclaveInv, SettledUnderTrust
  <2>3. QED
    BY <2>1, <2>2
<1>5. RunningKey'
  BY <1>1 DEF EnclaveInv, RunningKey
<1>6. CountsAreNat' /\ OneKeyUntilDeleted'
  BY <1>1 DEF EnclaveInv, CountsAreNat, OneKeyUntilDeleted
<1>7. QED
  BY <1>1, <1>2, <1>3, <1>4, <1>5, <1>6 DEF EnclaveInv

\* The owner's calls: a key it sets and a build it trusts are remembered.
LEMMA EnclaveInvOwner == ASSUME EnclaveInv, OwnerCalls PROVE EnclaveInv'
<1>1. /\ UNCHANGED << build, sealed, boot, signer, reportData, drawn, quotes, txs, settled >>
      /\ trusted \subseteq trusted' /\ byHand \subseteq byHand'
      /\ admin'.trustedMrEnclave \in trusted'
      /\ \/ admin'.enclaveSigningKey = admin.enclaveSigningKey
         \/ admin'.enclaveSigningKey \in byHand'
  BY DEF OwnerCalls, enclave
<1>2. DOMAIN admin' = DOMAIN admin
  BY DEF OwnerCalls, OwnerNext, AddSupportedToken, RemoveSupportedToken, SetTEEOperator,
         TransferOwnership, SetEnclaveSigningKey, SetRequireAttestation, SetTrustedMrEnclave,
         SetDcapVerifier, AdminCall
<1>3. CountsAreNat' /\ count'.deletions = count.deletions
  BY DEF EnclaveInv, OwnerCalls, Counts, CountsAreNat
<1>4. PICK origin \in [Keys -> Builds] : KeysFrom(origin)
  BY DEF EnclaveInv
<1>5. KeysFrom(origin)'
  <2>1. RegisteredFrom(origin)'
    BY <1>1, <1>4 DEF KeysFrom, RegisteredFrom
  <2>2. QED
    BY <1>1, <1>4, <2>1 DEF KeysFrom, FileFrom, QuotesFrom, SignedFrom
<1>6. RunningKey'
  BY <1>1 DEF EnclaveInv, RunningKey
<1>7. OneKeyUntilDeleted' /\ SettledUnderTrust'
  BY <1>1, <1>3 DEF EnclaveInv, OneKeyUntilDeleted, SettledUnderTrust
<1>8. QED
  BY <1>1, <1>2, <1>3, <1>4, <1>5, <1>6, <1>7 DEF EnclaveInv

\* A registration: the quote is of the trusted build, where its key was drawn.
LEMMA EnclaveInvRegister == ASSUME EnclaveInv, Register PROVE EnclaveInv'
<1>1. PICK quote \in quotes : RegisterEnclave(quote)
  BY DEF Register
<1>2. UNCHANGED << build, sealed, boot, signer, reportData, drawn, quotes, txs, count,
                   settled, trusted, byHand >>
  BY DEF Register, enclave, history
<1>3. /\ DOMAIN admin' = DOMAIN Deployed
      /\ admin'.trustedMrEnclave = admin.trustedMrEnclave
      /\ admin'.enclaveSigningKey = quote.key
  BY <1>1 DEF EnclaveInv, RegisterEnclave, Deployed
<1>4. PICK origin \in [Keys -> Builds] : KeysFrom(origin)
  BY DEF EnclaveInv
<1>5. KeysFrom(origin)'
  <2>1. quote.mrenclave \in trusted /\ quote.key # NONE
    BY <1>1 DEF EnclaveInv, RegisterEnclave
  <2>2. quote.key \in drawn /\ origin[quote.key] \in trusted
    BY <1>4, <2>1 DEF KeysFrom, QuotesFrom
  <2>3. RegisteredFrom(origin)'
    BY <1>2, <1>3, <2>2 DEF RegisteredFrom
  <2>4. QED
    BY <1>2, <1>4, <2>3 DEF KeysFrom, FileFrom, QuotesFrom, SignedFrom
<1>6. RunningKey'
  BY <1>2 DEF EnclaveInv, RunningKey
<1>7. CountsAreNat' /\ OneKeyUntilDeleted' /\ SettledUnderTrust'
  BY <1>2 DEF EnclaveInv, CountsAreNat, OneKeyUntilDeleted, SettledUnderTrust
<1>8. QED
  BY <1>2, <1>3, <1>4, <1>5, <1>6, <1>7 DEF EnclaveInv

\* Withdrawals, and steps that change nothing, concern none of this.
LEMMA EnclaveInvElse ==
  ASSUME EnclaveInv, Withdrawal \/ UNCHANGED enclaveVars
  PROVE  EnclaveInv'
<1>1. UNCHANGED << build, sealed, boot, signer, reportData, drawn, quotes, count, admin, txs,
                   settled, trusted, byHand >>
  BY DEF Withdrawal, WithdrawBySomeone, Withdraw, enclaveVars, poolVars, enclave, history
<1>2. PICK origin \in [Keys -> Builds] : KeysFrom(origin)
  BY DEF EnclaveInv
<1>3. KeysFrom(origin)'
  BY <1>1, <1>2 DEF KeysFrom, FileFrom, QuotesFrom, SignedFrom, RegisteredFrom
<1>4. RunningKey'
  BY <1>1 DEF EnclaveInv, RunningKey
<1>5. CountsAreNat' /\ OneKeyUntilDeleted' /\ SettledUnderTrust'
  BY <1>1 DEF EnclaveInv, CountsAreNat, OneKeyUntilDeleted, SettledUnderTrust
<1>6. QED
  BY <1>1, <1>2, <1>3, <1>4, <1>5 DEF EnclaveInv

-------------------------------------------------------------------------------

\* The inductive invariant holds throughout, over any crashes, upgrades,
\* deletions, registrations and calls of the owner.
THEOREM EnclaveInvariant == EnclaveSpec => []EnclaveInv
<1>1. EnclaveInit => EnclaveInv
  BY EnclaveInvInit
<1>2. EnclaveInv /\ [EnclaveNext]_enclaveVars => EnclaveInv'
  <2> SUFFICES ASSUME EnclaveInv, [EnclaveNext]_enclaveVars PROVE EnclaveInv'
    OBVIOUS
  <2>1. CASE DrawKey
    BY <2>1, EnclaveInvDrawKey
  <2>2. CASE KeyWritten \/ LoadKey \/ Panic \/ Serve
    BY <2>2, EnclaveInvBoot
  <2>3. CASE GetQuote
    BY <2>3, EnclaveInvGetQuote
  <2>4. CASE Stop \/ Upgrade \/ DeleteKeyFile
    BY <2>4, EnclaveInvOperator
  <2>5. CASE SignSettlement
    BY <2>5, EnclaveInvSign
  <2>6. CASE \E tx \in txs : MineSettlement(tx)
    BY <2>6, EnclaveInvMine
  <2>7. CASE OwnerCalls
    BY <2>7, EnclaveInvOwner
  <2>8. CASE Register
    BY <2>8, EnclaveInvRegister
  <2>9. CASE Withdrawal \/ UNCHANGED enclaveVars
    BY <2>9, EnclaveInvElse
  <2>10. QED
    BY <2>1, <2>2, <2>3, <2>4, <2>5, <2>6, <2>7, <2>8, <2>9 DEF EnclaveNext
<1>3. QED
  BY <1>1, <1>2, PTL DEF EnclaveSpec

\* No signature is made and no quote served with a key that a crash could lose
\* (from_sealed writes the key to the end before it returns).
THEOREM SignaturesOutliveCrashes == EnclaveSpec => []SignerIsSealed
<1>1. EnclaveInv => SignerIsSealed
  BY DEF EnclaveInv, RunningKey, SignerIsSealed
<1>2. QED
  BY <1>1, EnclaveInvariant, PTL

\* Over any crashes and upgrades there is one key until the operator deletes its
\* file: no start of another build replaces it (from_sealed draws a key only
\* when there is no file, and main panics on one it cannot read).
THEOREM RegistrationsStayGood == EnclaveSpec => []OneKeyUntilDeleted
<1>1. EnclaveInv => OneKeyUntilDeleted
  BY DEF EnclaveInv
<1>2. QED
  BY <1>1, EnclaveInvariant, PTL

\* A settlement is accepted only from a build the owner trusted at some time, or
\* from a key the owner set itself (registerEnclave and settleMatch against the
\* sealing of the key and the build in its quote).
THEOREM SettlementsAreTrusted == EnclaveSpec => []SettledUnderTrust
<1>1. EnclaveInv => SettledUnderTrust
  BY DEF EnclaveInv
<1>2. QED
  BY <1>1, EnclaveInvariant, PTL
===============================================================================
