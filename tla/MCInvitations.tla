---------------------------- MODULE MCInvitations ----------------------------
(* Small instances of Invitations for TLC.                                 *)
EXTENDS Invitations

\* Code 1 may be of any kind; when it is for signing up it has MaxUses uses and an
\* expiry (which may never pass).  The other codes are for re-pairing.  Members are
\* deleted.
MCArrival ==
    /\ past' \subseteq {1}
    /\ \A r \in Request :
          /\ req'[r].pc = "create_flush" /\ req'[r].user = NoUser =>
                req'[r].inv = 1 /\ req'[r].seen = NewInvite(MaxUses, TRUE, NoUser)
          /\ req'[r].pc = "delete_user_flush" => req'[r].user \in Member

MCSpec == Init /\ [][Next /\ MCArrival]_vars /\ \A r \in Request : SF_vars(Proceed(r))
=============================================================================
