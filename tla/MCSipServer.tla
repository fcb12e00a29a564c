----------------------------- MODULE MCSipServer -----------------------------
(* Small instances of SipServer. *)
EXTENDS SipServer, TLC

(* Logout (0) and a REGISTER without Expires (-1), which the next monitor run
   drops *)
ExpiresShort == {-1, 0}

(* These, and a registration that outlives the keepalive timeout *)
ExpiresLong == {-1, 0, 2}

Symmetry == Permutations(Slot) \cup Permutations(SipId) \cup Permutations(CallId)
=============================================================================
