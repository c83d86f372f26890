---------------------------- MODULE MCAdmission ----------------------------
(***************************************************************************)
(* Small instances of Admission, in two scenes.  In one, two identities    *)
(* and two logins race for the seats of one invitation; in the other, one  *)
(* identity's sessions live through expiry, renewal and revocation, with   *)
(* and without the invitation rule.  Everything that has only an identity  *)
(* is interchangeable with its like.                                       *)
(***************************************************************************)
EXTENDS Admission, TLC

CONSTANTS p1, p2, c1, x1, x2, l1, l2

VARIABLE scene

AdmissionSymmetry == Permutations(Subjects) \cup Permutations(Sessions) \cup Permutations(Logins)

Known == {s \in Subjects : access[s].granted \/ \E l \in Logins : login[l].subject = s}
Busy  == {l \in Logins : login[l].pc # "idle"}

\* What a scene leaves out.  The race for seats takes place in the last two ticks, so
\* that every later instant is Never, and no session is revoked in it.
InScene ==
  IF scene = "seats"
  THEN /\ now < MaxTime - 1 => Busy = {} /\ \A c \in Codes : ~code[c].made
       /\ \A c \in Codes : code[c].made => code[c].hours = 1 /\ code[c].exp = Never
       /\ \A s \in Known : access[s].exp >= MaxTime
       /\ \A x \in Sessions : ~sess[x].revoked
  ELSE /\ Cardinality(Known) <= 1 /\ Cardinality(Busy) <= 1
       /\ \A c \in Codes : code[c].made => code[c].hours = 2 /\ code[c].max = 1

SceneInit == Init /\ scene \in {"seats", "sessions"} /\ (scene = "seats" => required)
SceneNext == Next /\ UNCHANGED scene /\ InScene'
SceneSpec == SceneInit /\ [][SceneNext]_<<vars, scene>>
=============================================================================
