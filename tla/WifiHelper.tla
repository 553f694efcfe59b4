----------------------------- MODULE WifiHelper -----------------------------
(***************************************************************************)
(* WifiHelper and the driver behind it: join tries to connect a number of  *)
(* times, a minute each at most; isJoined looks at the link status that    *)
(* the driver keeps.  The driver and the network are modelled by what they *)
(* can answer.                                                             *)
(***************************************************************************)
EXTENDS Integers

CONSTANTS WIFI_RETRIES,    \* attempts of a join, three unless the build says otherwise
          Right            \* the credentials that the network accepts

ASSUME WifiAssumption == WIFI_RETRIES \in Nat \ {0, 1}

VARIABLES
  network,    \* what is in reach: "off", "no_address" (associates only) or "on"
  status,     \* cyw43_wifi_link_status
  joining,    \* join: "no", "attempt" or "pause"
  attempts

wifiVars == <<network, status, joining, attempts>>

CYW43_LINK_DOWN == 0
CYW43_LINK_JOIN == 1
CYW43_LINK_FAIL == -1    \* stands for CYW43_LINK_NONET and CYW43_LINK_BADAUTH too

WifiTypeOK ==
  /\ network \in {"off", "no_address", "on"}
  /\ status \in {CYW43_LINK_DOWN, CYW43_LINK_JOIN, CYW43_LINK_FAIL}
  /\ joining \in {"no", "attempt", "pause"}
  /\ attempts \in 0 .. WIFI_RETRIES

WifiInit ==
  /\ network \in {"off", "no_address", "on"}
  /\ status = CYW43_LINK_DOWN
  /\ joining = "no" /\ attempts = 0

Associates(credentials) == network # "off" /\ credentials = Right
Accepts(credentials) == network = "on" /\ credentials = Right

-----------------------------------------------------------------------------
(* join *)

StartJoin ==
  /\ joining = "no"
  /\ joining' = "attempt" /\ attempts' = 1
  /\ UNCHANGED <<network, status>>

\* cyw43_arch_wifi_connect_timeout_ms returns 0.
Joins(credentials) ==
  /\ joining = "attempt" /\ Accepts(credentials)
  /\ status' = CYW43_LINK_JOIN
  /\ joining' = "no" /\ attempts' = 0
  /\ UNCHANGED network

\* It returns an error: there is no network, it does not accept the
\* credentials, or it gives no address for a minute.
Fails(credentials) ==
  /\ joining = "attempt" /\ ~Accepts(credentials)
  /\ status' \in IF Associates(credentials) THEN {CYW43_LINK_JOIN}
                 ELSE {CYW43_LINK_DOWN, CYW43_LINK_FAIL}
  /\ UNCHANGED network

Last == attempts >= WIFI_RETRIES

AttemptFails(credentials) ==
  /\ ~Last /\ Fails(credentials)
  /\ joining' = "pause"
  /\ UNCHANGED attempts

JoinFails(credentials) ==
  /\ Last /\ Fails(credentials)
  /\ joining' = "no" /\ attempts' = 0

TryAgain ==
  /\ joining = "pause"
  /\ joining' = "attempt" /\ attempts' = attempts + 1
  /\ UNCHANGED <<network, status>>

\* Mutation: isJoined is true of a link that failed too.
JoinedWhatever == status >= CYW43_LINK_FAIL
isJoined == status >= CYW43_LINK_DOWN

-----------------------------------------------------------------------------
(* The network *)

\* The access point ends the association or can no longer be heard, or a new
\* exchange of keys with it fails.
LinkLost ==
  /\ status = CYW43_LINK_JOIN /\ joining # "attempt"
  /\ status' \in {CYW43_LINK_DOWN, CYW43_LINK_FAIL}
  /\ UNCHANGED <<network, joining, attempts>>

NetworkChanges ==
  /\ network' \in {"off", "no_address", "on"} \ {network}
  /\ UNCHANGED <<status, joining, attempts>>
============================================================================
