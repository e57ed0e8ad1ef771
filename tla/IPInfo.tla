--------------------------------- MODULE IPInfo ---------------------------------
(***************************************************************************)
(* UpdateIPInfo: for each provider whose description does not belong to    *)
(* its address, a web service is asked, slowly, one address after the      *)
(* other; what came back is saved at the end in one statement, whatever    *)
(* the endpoint refresh has done to the addresses meanwhile.               *)
(***************************************************************************)
EXTENDS Naturals

CONSTANTS
  Hosts,       \* providers
  MaxIP        \* addresses a provider has, one after the other; 0 is none

ASSUME IPInfoAssumption == MaxIP \in Nat

VARIABLES
  ip, ipInfo,  \* columns of providers.providers: the address, and the one described
  ipc,         \* UpdateIPInfo: "idle" or "fetch"
  ips,         \* addresses still to ask about
  ipsInfo      \* descriptions to save

ipVars == <<ip, ipInfo, ipc, ips, ipsInfo>>

None == [h \in Hosts |-> 0]

\* One type invariant.
IPTypeOK ==
  /\ ip \in [Hosts -> 0..MaxIP] /\ ipInfo \in [Hosts -> 0..MaxIP]
  /\ ipc \in {"idle", "fetch"}
  /\ ips \in [Hosts -> 0..MaxIP] /\ ipsInfo \in [Hosts -> 0..MaxIP]

IPInit == ip = None /\ ipInfo = None /\ ipc = "idle" /\ ips = None /\ ipsInfo = None

\* Mutant: only rows without a description are taken.
outdatedEmpty(h) == ip[h] # 0 /\ ipInfo[h] = 0

\* GetProvidersIPs: an address, and no description of it.
outdated(h) == ip[h] # 0 /\ ipInfo[h] # ip[h]

\* A run that finds something to do.
GetProvidersIPs ==
  /\ ipc = "idle" /\ \E h \in Hosts : outdated(h)
  /\ ipc' = "fetch"
  /\ ips' = [h \in Hosts |-> IF outdated(h) THEN ip[h] ELSE 0]
  /\ UNCHANGED <<ip, ipInfo, ipsInfo>>

GetIPInfo(h) ==
  /\ ipc = "fetch" /\ ips[h] # 0
  /\ ips' = [ips EXCEPT ![h] = 0]
  /\ ipsInfo' = [ipsInfo EXCEPT ![h] = ips[h]]
  /\ UNCHANGED <<ip, ipInfo, ipc>>

\* The service fails for one address; the loop goes on.
GetIPInfoFails(h) ==
  /\ ipc = "fetch" /\ ips[h] # 0
  /\ ips' = [ips EXCEPT ![h] = 0]
  /\ UNCHANGED <<ip, ipInfo, ipc, ipsInfo>>

UpdateProvidersIPInfo ==
  /\ ipc = "fetch" /\ ips = None
  /\ ipInfo' = [h \in Hosts |-> IF ipsInfo[h] # 0 THEN ipsInfo[h] ELSE ipInfo[h]]
  /\ ipc' = "idle" /\ ipsInfo' = None
  /\ UNCHANGED <<ip, ips>>

UpdateIPInfoFails ==
  /\ ipc = "fetch" /\ ips = None
  /\ ipc' = "idle" /\ ipsInfo' = None
  /\ UNCHANGED <<ip, ipInfo, ips>>

\* The endpoint refresh saves a new address.
NewIP ==
  /\ \E h \in Hosts : ip[h] < MaxIP /\ ip' = [ip EXCEPT ![h] = @ + 1]
  /\ UNCHANGED <<ipInfo, ipc, ips, ipsInfo>>

RestartIPInfo ==
  /\ ipc = "fetch" /\ ipc' = "idle" /\ ips' = None /\ ipsInfo' = None
  /\ UNCHANGED <<ip, ipInfo>>

IPStep == GetProvidersIPs \/ UpdateProvidersIPInfo \/ \E h \in Hosts : GetIPInfo(h)
IPFails == UpdateIPInfoFails \/ \E h \in Hosts : GetIPInfoFails(h)
IPNext == IPStep \/ IPFails \/ NewIP \/ RestartIPInfo

IPSpec == IPInit /\ [][IPNext]_ipVars
=============================================================================
