------------------------- MODULE BrowserInvariants -------------------------
(***************************************************************************)
(* What the pages and the token endpoints achieve together.                *)
(***************************************************************************)
EXTENDS Browser

Usable(t) == ~tokens[t].revoked /\ now <= tokens[t].at + RefreshTTL

\* A browser that exchanges its login session once and always presents the
\* token it got last leaves one refresh token alive per login, however logins,
\* logouts and refreshes overlap: the old one is revoked before the new one is
\* stored, the session deleted after its use (RefreshToken, ExchangeLoginSession).
OneLiveGrant ==
    \A s, t \in DOMAIN tokens :
       /\ tokens[s].login = tokens[t].login /\ tokens[s].login \notin twice
       /\ Usable(s) /\ Usable(t)
       => s = t

\* Unless a refresh is under way, the refresh token in localStorage is one the
\* server still knows, however the responses to several calls interleave, also
\* with those to a login or to calls from before the last logout.
StoredTokenIsLive ==
    storage.refresh # 0 /\ (\A c \in Procs : ~In(c, "driving"))
       => ~tokens[storage.refresh].revoked

\* The page signs its user out only when they ask for it, when the network loses
\* a refresh, or when the refresh token that was presented has expired: never
\* because calls that found the access token expired at the same time refreshed
\* it against each other.  The token presented may be one from before a logout.
SignedInStays ==
    [][signedIn /\ ~signedIn' =>
          \/ LogOut
          \/ \E c \in Procs :
                \/ AnswerLost(c) \/ RequestLost(c)
                \/ RefreshFailed(c) /\ now > tokens[calls[c].token].at + RefreshTTL]_allVars

\* Every call of the page gets an answer, also one that waits for another's
\* refresh, and also when that refresh fails (pendingRequests of client.ts).
EveryCallEnds == \A c \in Procs : ~In(c, "idle") ~> In(c, "idle")
=============================================================================
