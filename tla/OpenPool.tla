------------------------------- MODULE OpenPool -------------------------------
(***************************************************************************)
(* What the pool promises whoever calls it, the operator included, when    *)
(* nothing is known of what they say: secrets are spent once, a note is    *)
(* paid what it claims and no more, and what claims come in without funds  *)
(* is no more than what the deposits and settlements that brought them     *)
(* claimed in excess.                                                      *)
(***************************************************************************)
EXTENDS Integers, FiniteSetsExt

CONSTANTS Tokens, Amounts,
          Commitments,         \* what may be deposited: notes [nn, token, amount]
          EMPTY                \* and a commitment that is no note

VARIABLES unspent,             \* the notes that can still be spent
          spent,               \* the secrets that were spent
          funds,               \* token -> what the pool holds
          unbacked             \* token -> what was claimed in excess so far

opvars == << unspent, spent, funds, unbacked >>

\* What some commitments claim of a token together.
Claims(new, token) ==
  FoldSet(LAMBDA note, sum : sum + note.amount, 0, { note \in new \ {EMPTY} : note.token = token })

Excess(claims, cover) == IF claims > cover THEN claims - cover ELSE 0

OPInit ==
  /\ unspent = {} /\ spent = {}
  /\ funds = [token \in Tokens |-> 0] /\ unbacked = [token \in Tokens |-> 0]

\* The notes among some commitments, unless their secrets are spent already.
Spendable(new, spentThen) == { note \in new \ {EMPTY} : note.nn \notin spentThen }

\* Nobody pays for a note that is there to be spent already.
Receive(new, token, amount) ==
  /\ new \notin unspent
  /\ unspent' = unspent \cup Spendable({new}, spent)
  /\ funds' = [funds EXCEPT ![token] = @ + amount]
  /\ unbacked' = [t \in Tokens |->
                    unbacked[t] + Excess(Claims({new}, t), IF t = token THEN amount ELSE 0)]
  /\ UNCHANGED spent

Pay(note) ==
  /\ note \in unspent
  /\ note.amount <= funds[note.token]
  /\ spent' = spent \cup {note.nn}
  /\ unspent' = Spendable(unspent, spent')
  /\ funds' = [funds EXCEPT ![note.token] = @ - note.amount]
  /\ UNCHANGED unbacked

Exchange(secret1, secret2, new1, new2) ==
  /\ {secret1, secret2} \cap spent = {}
  /\ spent' = spent \cup {secret1, secret2}
  /\ unspent' = Spendable(unspent \cup {new1, new2}, spent')
  /\ LET old == unspent \ Spendable(unspent, spent')
     IN  unbacked' = [t \in Tokens |->
                       unbacked[t] + Excess(Claims({new1, new2}, t), Claims(old, t))]
  /\ UNCHANGED funds

OPNext ==
  \/ \E new \in Commitments, token \in Tokens, amount \in Amounts : Receive(new, token, amount)
  \/ \E note \in unspent : Pay(note)
  \/ \E secret1, secret2 \in spent' \ spent, new1, new2 \in Commitments :
       Exchange(secret1, secret2, new1, new2)

OPSpec == OPInit /\ [][OPNext]_opvars
===============================================================================
