------------------------------ MODULE LdapClient ------------------------------
(***************************************************************************)
(* The connection of an LDAP source (LDAPPlugin and _LDAPClient, in        *)
(* plugins/ldap_backend/plugin.py).  The workers share one client and use  *)
(* it under a lock: a search connects when there is no connection, and     *)
(* when it fails on a connection that was there before, it connects and    *)
(* searches once more.  unload() closes the connection without the lock.   *)
(* The server may go down, restart, and forget idle connections.           *)
(***************************************************************************)
EXTENDS Integers, FiniteSets

CONSTANTS
  Searchers,     \* threads that search the source
  Connections,   \* connection objects; one is used again once it is unbound
  NoConnection, Nobody

ASSUME LdapAssumption ==
  /\ Connections \subseteq Int /\ Connections # {} /\ NoConnection \notin Connections
  /\ Nobody \notin Searchers

VARIABLES
  serverUp,
  ldapObj,       \* _ldap_obj
  open,          \* connection objects that have not been unbound
  bound,         \* those the server knows
  lock,          \* holder of LDAPPlugin._lock
  ldapPc,        \* step of each thread
  using,         \* the object its call in progress is made on
  many,          \* its search has a size limit and matches more entries
  retry,
  answer,        \* what its search returned: "found", "empty" or "raised"
  trouble,       \* history: something other than a stale connection went wrong
  closePc,       \* step of unload()
  closing,       \* the object unload() is unbinding
  usedAfter      \* history: a search was running or was made once unload() had begun

serverVars == <<serverUp, bound>>
callVars == <<using, many, retry, answer, trouble>>
closeVars == <<closePc, closing, usedAfter>>
ldapVars == <<serverVars, ldapObj, open, lock, ldapPc, callVars, closeVars>>

LdapTypeOK ==
  /\ serverUp \in BOOLEAN
  /\ ldapObj \in Connections \cup {NoConnection}
  /\ bound \subseteq open /\ open \subseteq Connections
  /\ lock \in Searchers \cup {Nobody}
  /\ ldapPc \in [Searchers -> {"idle", "lock", "check", "connect", "bind", "bound", "search", "wait",
                               "unbind", "clear", "after", "release"}]
  /\ using \in [Searchers -> Connections \cup {NoConnection}]
  /\ many \in [Searchers -> BOOLEAN] /\ retry \in [Searchers -> BOOLEAN]
  /\ answer \in [Searchers -> {"found", "empty", "raised"}]
  /\ trouble \in [Searchers -> BOOLEAN]
  /\ closePc \in {"no", "check", "unbind", "clear", "done"}
  /\ closing \in Connections \cup {NoConnection}
  /\ usedAfter \in BOOLEAN

(* load(): a source whose server does not answer is loaded all the same.    *)
LdapInit ==
  /\ serverUp \in BOOLEAN
  /\ ldapObj = (IF serverUp THEN CHOOSE c \in Connections : TRUE ELSE NoConnection)
  /\ open = {ldapObj} \ {NoConnection}
  /\ bound = open
  /\ lock = Nobody
  /\ ldapPc = [t \in Searchers |-> "idle"]
  /\ using = [t \in Searchers |-> NoConnection]
  /\ many = [t \in Searchers |-> FALSE]
  /\ retry = [t \in Searchers |-> FALSE]
  /\ answer = [t \in Searchers |-> "empty"]
  /\ trouble = [t \in Searchers |-> FALSE]
  /\ closePc = "no"
  /\ closing = NoConnection
  /\ usedAfter = FALSE

(* unbind_s                                                                *)
Unbound(c) == bound \ {c}
Closed(c) == open \ {c}

IsSetUp == ldapObj # NoConnection

LdapGoTo(t, step) == ldapPc' = [ldapPc EXCEPT ![t] = step]
Answers(t, a) == answer' = [answer EXCEPT ![t] = a]
Running(t) == ldapPc[t] # "idle"
Troubled(S) == trouble' = [t \in Searchers |-> trouble[t] \/ t \in S]

(***************************************************************************)
(* The server.                                                             *)
(***************************************************************************)
ServerStops ==
  /\ serverUp
  /\ serverUp' = FALSE
  /\ bound' = {}
  /\ Troubled({t \in Searchers : Running(t)})
  /\ UNCHANGED <<ldapObj, open, lock, ldapPc, using, many, retry, answer, closeVars>>

ServerStarts ==
  /\ ~serverUp
  /\ serverUp' = TRUE
  /\ UNCHANGED <<bound, ldapObj, open, lock, ldapPc, callVars, closeVars>>

(* The connection has been idle for too long.                              *)
ServerForgets ==
  /\ lock = Nobody
  /\ bound # {}
  /\ bound' = {}
  /\ UNCHANGED <<serverUp, ldapObj, open, lock, ldapPc, callVars, closeVars>>

(***************************************************************************)
(* search, first_match, match_all and list.                                *)
(***************************************************************************)
LdapCall(t) ==
  /\ ldapPc[t] = "idle"
  /\ LdapGoTo(t, "lock")
  /\ \E b \in BOOLEAN : many' = [many EXCEPT ![t] = b]
  /\ trouble' = [trouble EXCEPT ![t] = ~serverUp]
  /\ Answers(t, "empty")
  /\ usedAfter' = (usedAfter \/ closePc # "no")
  /\ UNCHANGED <<serverVars, ldapObj, open, lock, using, retry, closePc, closing>>

Acquire(t) ==
  /\ ldapPc[t] = "lock"
  /\ lock = Nobody
  /\ lock' = t
  /\ LdapGoTo(t, "check")
  /\ UNCHANGED <<serverVars, ldapObj, open, callVars, closeVars>>

Check(t) ==
  /\ ldapPc[t] = "check"
  /\ retry' = [retry EXCEPT ![t] = ldapObj # NoConnection]
  /\ LdapGoTo(t, IF IsSetUp THEN "search" ELSE "connect")
  /\ UNCHANGED <<serverVars, ldapObj, open, lock, using, many, answer, trouble, closeVars>>

(* _new_ldap_obj does not talk to the server.                              *)
Connect(t) ==
  /\ ldapPc[t] = "connect"
  /\ \E c \in Connections \ open :
       /\ \A d \in Connections \ open : c <= d
       /\ ldapObj' = c
       /\ open' = open \cup {c}
  /\ LdapGoTo(t, "bind")
  /\ UNCHANGED <<serverVars, lock, callVars, closeVars>>

(* An attribute of None, or a call on an object that was unbound: the       *)
(* exception leaves the lock and the plugin.                               *)
Raise(t) == Answers(t, "raised") /\ LdapGoTo(t, "release")

(* simple_bind_s; an error tears the connection down.                      *)
Bind(t) ==
  /\ ldapPc[t] = "bind"
  /\ \/ /\ ldapObj = NoConnection
        /\ Raise(t)
        /\ UNCHANGED <<bound, retry, trouble>>
     \/ /\ ldapObj \in open /\ serverUp
        /\ bound' = bound \cup {ldapObj}
        /\ LdapGoTo(t, "bound")
        /\ UNCHANGED <<retry, answer, trouble>>
     \/ /\ ldapObj # NoConnection      \* refused, timed out, no server, or unbound meanwhile
        /\ LdapGoTo(t, "unbind")
        /\ retry' = [retry EXCEPT ![t] = FALSE]
        /\ Troubled({t})
        /\ UNCHANGED <<bound, answer>>
  /\ UNCHANGED <<serverUp, ldapObj, open, lock, using, many, closeVars>>

(* search(): "if not self._is_set_up(): return []".                        *)
Bound(t) ==
  /\ ldapPc[t] = "bound"
  /\ LdapGoTo(t, IF IsSetUp THEN "search" ELSE "release")
  /\ UNCHANGED <<serverVars, ldapObj, open, lock, callVars, closeVars>>

(* search_ext_s is called on the object _ldap_obj holds then.              *)
Send(t) ==
  /\ ldapPc[t] = "search"
  /\ IF ldapObj = NoConnection
     THEN Raise(t) /\ UNCHANGED using
     ELSE /\ using' = [using EXCEPT ![t] = ldapObj]
          /\ LdapGoTo(t, "wait") /\ UNCHANGED answer
  /\ UNCHANGED <<serverVars, ldapObj, open, lock, many, retry, trouble, closeVars>>

TearDownAfterError(t) == LdapGoTo(t, "unbind")

(* It returns, or raises: FILTER_ERROR, NO_SUCH_OBJECT and TIMEOUT leave   *)
(* the connection alone, any other error tears it down, SIZELIMIT_EXCEEDED  *)
(* of a first_match that matches several entries included.                 *)
Receive(t) ==
  /\ ldapPc[t] = "wait"
  /\ \/ /\ serverUp /\ using[t] \in bound /\ ~many[t]
        /\ Answers(t, "found")
        /\ LdapGoTo(t, "after") /\ UNCHANGED trouble
     \/ /\ Answers(t, "empty") /\ Troubled({t})
        /\ LdapGoTo(t, "after")
     \/ /\ ~serverUp \/ using[t] \notin bound \/ many[t]
        /\ Answers(t, "empty")
        /\ IF many[t] THEN Troubled({t}) ELSE UNCHANGED trouble
        /\ TearDownAfterError(t)
  /\ using' = [using EXCEPT ![t] = NoConnection]
  /\ UNCHANGED <<serverVars, ldapObj, open, lock, many, retry, closeVars>>

(* _tear_down: unbind_s, then _ldap_obj = None.                            *)
Unbind(t) ==
  /\ ldapPc[t] = "unbind"
  /\ IF ldapObj \notin open
     THEN Raise(t) /\ UNCHANGED <<open, bound>>
     ELSE /\ open' = Closed(ldapObj)
          /\ bound' = Unbound(ldapObj)
          /\ LdapGoTo(t, "clear") /\ UNCHANGED answer
  /\ UNCHANGED <<serverUp, ldapObj, lock, using, many, retry, trouble, closeVars>>

Clear(t) ==
  /\ ldapPc[t] = "clear"
  /\ ldapObj' = NoConnection
  /\ LdapGoTo(t, "after")
  /\ UNCHANGED <<serverVars, open, lock, callVars, closeVars>>

(* Mutant: a search that failed is not made again.                         *)
NoSecondTry(t) == FALSE

SecondTry(t) == ldapObj = NoConnection /\ retry[t]

After(t) ==
  /\ ldapPc[t] = "after"
  /\ retry' = [retry EXCEPT ![t] = FALSE]
  /\ LdapGoTo(t, IF SecondTry(t) THEN "connect" ELSE "release")
  /\ UNCHANGED <<serverVars, ldapObj, open, lock, using, many, answer, trouble, closeVars>>

Release(t) ==
  /\ ldapPc[t] = "release"
  /\ lock' = Nobody
  /\ LdapGoTo(t, "idle")
  /\ UNCHANGED <<serverVars, ldapObj, open, callVars, closeVars>>

(***************************************************************************)
(* unload(): close() of the client, without the lock.                      *)
(***************************************************************************)
Unload ==
  /\ closePc = "no"
  /\ closePc' = "check"
  /\ usedAfter' = \E t \in Searchers : Running(t)
  /\ Troubled({t \in Searchers : Running(t)})
  /\ UNCHANGED <<serverVars, ldapObj, open, lock, ldapPc, using, many, retry, answer, closing>>

CloseCheck ==
  /\ closePc = "check"
  /\ closePc' = IF ldapObj = NoConnection THEN "done" ELSE "unbind"
  /\ UNCHANGED <<serverVars, ldapObj, open, lock, ldapPc, callVars, closing, usedAfter>>

(* It may find None, or an object that is unbound already, and raise.      *)
CloseUnbind ==
  /\ closePc = "unbind"
  /\ closing' = ldapObj
  /\ open' = Closed(ldapObj)
  /\ bound' = Unbound(ldapObj)
  /\ closePc' = IF ldapObj \in open THEN "clear" ELSE "done"
  /\ UNCHANGED <<serverUp, ldapObj, lock, ldapPc, callVars, usedAfter>>

CloseClear ==
  /\ closePc = "clear"
  /\ ldapObj' = NoConnection
  /\ closePc' = "done"
  /\ UNCHANGED <<serverVars, open, lock, ldapPc, callVars, closing, usedAfter>>

Close == Unload \/ CloseCheck \/ CloseUnbind \/ CloseClear

LdapStep(t) ==
  \/ Acquire(t) \/ Check(t) \/ Connect(t) \/ Bind(t) \/ Bound(t) \/ Send(t)
  \/ Receive(t) \/ Unbind(t) \/ Clear(t) \/ After(t) \/ Release(t)

LdapNext ==
  \/ ServerStops \/ ServerStarts \/ ServerForgets \/ Close
  \/ \E t \in Searchers : LdapCall(t) \/ LdapStep(t)

(***************************************************************************)
(* Properties.                                                             *)
(***************************************************************************)
(* A connection the server has dropped costs a search nothing: it finds    *)
(* what it should when the server is up throughout and refuses nothing     *)
(* (search() sets the connection up again, once).                          *)
StaleConnectionIsHidden ==
  \A t \in Searchers : ldapPc[t] = "release" /\ ~trouble[t] /\ closePc = "no" => answer[t] = "found"

(* A search only ends in an exception when the source is being unloaded    *)
(* (close() takes no lock).                                                *)
RaisesOnlyWhenUnloaded ==
  \A t \in Searchers : answer[t] = "raised" => closePc # "no" /\ usedAfter

(* No connection is lost: the client holds the only open one, and unload()  *)
(* closes it, unless a search runs while or after it does.                 *)
NoConnectionLeaks ==
  /\ ~usedAfter /\ lock = Nobody /\ closePc \in {"no", "done"} =>
       open = {ldapObj} \ {NoConnection}
  /\ ~usedAfter /\ closePc = "done" => open = {}

(* Reconnecting, unloading and the lock leave every search what it needs.   *)
LdapRecovers == LdapTypeOK /\ StaleConnectionIsHidden /\ RaisesOnlyWhenUnloaded /\ NoConnectionLeaks
=============================================================================
