----------------------------- MODULE ShieldedPool -----------------------------
(***************************************************************************)
(* What the pool promises those who deposit what their notes say: a set of *)
(* unspent notes and the funds that back them.  A note enters with its     *)
(* funds, is paid out at most once, or is exchanged together with another  *)
(* one for two new notes that claim no more of any token than the two old  *)
(* ones did.  It is given by its steps, for pools that hold notes at first.*)
(***************************************************************************)
EXTENDS Integers

CONSTANTS Tokens, Notes        \* a note is [nn, token, amount]

VARIABLES unspent,             \* the notes that can still be spent
          used,                \* the secrets of every note ever issued
          funds                \* token -> what the pool holds

spvars == << unspent, used, funds >>

\* What a note claims of a token.
Claim(note, token) == IF note.token = token THEN note.amount ELSE 0

Issue(note) ==
  /\ note.nn \notin used
  /\ unspent' = unspent \cup {note}
  /\ used' = used \cup {note.nn}
  /\ funds' = [funds EXCEPT ![note.token] = @ + note.amount]

Pay(note) ==
  /\ note \in unspent
  /\ unspent' = unspent \ {note}
  /\ funds' = [funds EXCEPT ![note.token] = @ - note.amount]
  /\ UNCHANGED used

Exchange(old1, old2, new1, new2) ==
  /\ old1 \in unspent /\ old2 \in unspent /\ old1.nn # old2.nn
  /\ {new1.nn, new2.nn} \cap used = {} /\ new1.nn # new2.nn
  /\ \A token \in Tokens :
       Claim(new1, token) + Claim(new2, token) <= Claim(old1, token) + Claim(old2, token)
  /\ unspent' = (unspent \ {old1, old2}) \cup {new1, new2}
  /\ used' = used \cup {new1.nn, new2.nn}
  /\ UNCHANGED funds

SPNext ==
  \/ \E note \in unspent' \cap Notes : Issue(note)
  \/ \E note \in unspent : Pay(note)
  \/ \E old1, old2 \in unspent, new1, new2 \in unspent' \cap Notes : Exchange(old1, old2, new1, new2)
===============================================================================
