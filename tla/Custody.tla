------------------------------- MODULE Custody -------------------------------
(****************************************************************************)
(* What a quarantine vault promises, without threads, files or an index: a  *)
(* content that is taken off the host is in custody first, and it leaves    *)
(* custody only when somebody asked for its item.                           *)
(****************************************************************************)
CONSTANTS Contents, Ids, Nothing

VARIABLES
  host,      \* contents some file of the host has
  custody,   \* the content held under each id, or Nothing
  asked,     \* ids somebody asked to delete or to restore
  exposed    \* contents that others put where the vault was already at work

vars == <<host, custody, asked, exposed>>

Held == {custody[i] : i \in Ids} \ {Nothing}

Init ==
  /\ host = {}
  /\ custody = [i \in Ids |-> Nothing]
  /\ asked = {}
  /\ exposed = {}

\* A content of the host, or one read from it earlier, is put under a new id.
Take(i, c) ==
  /\ custody[i] = Nothing /\ i \notin asked
  /\ custody' = [custody EXCEPT ![i] = c]
  /\ UNCHANGED <<host, asked, exposed>>

\* Only what is in custody is taken off the host.
Drop(c) ==
  /\ c \in Held
  /\ host' = host \ {c}
  /\ UNCHANGED <<custody, asked, exposed>>

Ask(i) ==
  /\ asked' = asked \cup {i}
  /\ UNCHANGED <<host, custody, exposed>>

Discard(i) ==
  /\ i \in asked
  /\ custody' = [custody EXCEPT ![i] = Nothing]
  /\ UNCHANGED <<host, asked, exposed>>

\* Restoring writes the content back; the item is discarded afterwards.
PutBack(i) ==
  /\ custody[i] # Nothing
  /\ host' = host \cup {custody[i]}
  /\ exposed' \in {exposed, exposed \cup {custody[i]}}
  /\ UNCHANGED <<custody, asked>>

\* Others create files, and may replace the one the vault is working on.
Appear(c) ==
  /\ c \notin host
  /\ \E gone \in SUBSET host :
       /\ host' = (host \ gone) \cup {c}
       /\ exposed' \in {exposed \cup gone, exposed \cup gone \cup {c}}
  /\ UNCHANGED <<custody, asked>>

\* What was put at risk may be overwritten or removed.
Overwrite(c) ==
  /\ exposed' \in {exposed, exposed \cup {c}} /\ c \in exposed'
  /\ host' = host \ {c}
  /\ UNCHANGED <<custody, asked>>

Next ==
  \/ \E c \in Contents : Drop(c) \/ Appear(c) \/ Overwrite(c)
  \/ \E i \in Ids : Ask(i) \/ Discard(i) \/ PutBack(i)
  \/ \E i \in Ids, c \in Contents : Take(i, c)

Spec == Init /\ [][Next]_vars
=============================================================================
