------------------------------ MODULE Clients ------------------------------
(***************************************************************************)
(* The lifecycle of client organizations and of their projects: create,    *)
(* close and reopen, archive and unarchive, delete for good.               *)
(*                                                                         *)
(* A handler loads the organization or the project, decides by what it     *)
(* loaded, and changes it in a later transaction.  What the transaction    *)
(* checks again is a guard of the commit; what it does not is taken from   *)
(* the load, however old it is by then.  Ids are random and never drawn    *)
(* twice.                                                                  *)
(***************************************************************************)
EXTENDS Naturals

CONSTANTS
  Orgs,      \* ids for client_orgs
  Projects,  \* ids for projects
  NoOrg,     \* the organization of a project that was never created
  Requests   \* requests in progress at once

ASSUME NoOrgAssumption == NoOrg \notin Orgs

VARIABLES
  org,       \* client_orgs: "unused", "active", "archived" (archived_at), "deleted"
  project,   \* projects.status, "unused" and "deleted"
  client,    \* projects.client_org_id
  req,       \* what each request has loaded
  reopened   \* history: the active projects reopened under an archived client

vars == <<org, project, client, req, reopened>>

Idle == [does |-> "idle"]
OrgRequests == [does : {"archive", "unarchive", "delete client"}, org : Orgs]
ProjectRequests == [does : {"close", "reopen", "delete project"}, project : Projects]

Exists(status) == status \notin {"unused", "deleted"}

TypeOK ==
  /\ org \in [Orgs -> {"unused", "active", "archived", "deleted"}]
  /\ project \in [Projects -> {"unused", "active", "closed", "deleted"}]
  /\ client \in [Projects -> Orgs \cup {NoOrg}]
  /\ req \in [Requests -> {Idle} \cup OrgRequests \cup ProjectRequests]
  /\ reopened \subseteq {p \in Projects : project[p] = "active"}

Init ==
  /\ org = [o \in Orgs |-> "unused"]
  /\ project = [p \in Projects |-> "unused"]
  /\ client = [p \in Projects |-> NoOrg]
  /\ req = [r \in Requests |-> Idle]
  /\ reopened = {}

ProjectsOf(o) == {p \in Projects : client[p] = o}

Done(r) == req' = [req EXCEPT ![r] = Idle]

\* An UPDATE by id: no effect on a row that is gone.
SetOrg(o, status) == org' = IF Exists(org[o]) THEN [org EXCEPT ![o] = status] ELSE org

\* Mutant: the UPDATE changes an active project only.
SetProjectWhileActive(p, status) ==
  project' = IF project[p] = "active" THEN [project EXCEPT ![p] = status] ELSE project

SetProject(p, status) ==
  project' = IF Exists(project[p]) THEN [project EXCEPT ![p] = status] ELSE project

-----------------------------------------------------------------------------
(* One transaction *)

\* clientCreate, and a new name in clientsImport.
ClientCreate(o) ==
  /\ org[o] = "unused"
  /\ org' = [org EXCEPT ![o] = "active"]
  /\ UNCHANGED <<project, client, req, reopened>>

\* Mutant: the organization has to be there, no more.
OrgExists(o) == Exists(org[o])

\* count(*) of the client_orgs WHERE archived_at IS NULL
OrgOpen(o) == org[o] = "active"

ProjectCreate(p, o) ==
  /\ project[p] = "unused"
  /\ OrgOpen(o)
  /\ project' = [project EXCEPT ![p] = "active"]
  /\ client' = [client EXCEPT ![p] = o]
  /\ UNCHANGED <<org, req, reopened>>

-----------------------------------------------------------------------------
(* Load, and decide by what was loaded *)

LoadClient(r, o) ==
  /\ req[r] = Idle
  /\ Exists(org[o])
  /\ \/ req' = [req EXCEPT ![r] = [does |-> "archive", org |-> o]]
     \/ req' = [req EXCEPT ![r] = [does |-> "unarchive", org |-> o]]
     \/ /\ org[o] = "archived"
        /\ req' = [req EXCEPT ![r] = [does |-> "delete client", org |-> o]]
  /\ UNCHANGED <<org, project, client, reopened>>

\* A sign-off closes the project too.
LoadProject(r, p) ==
  /\ req[r] = Idle
  /\ \/ /\ project[p] = "active"
        /\ req' = [req EXCEPT ![r] = [does |-> "close", project |-> p]]
     \/ /\ project[p] = "closed"
        /\ \/ req' = [req EXCEPT ![r] = [does |-> "reopen", project |-> p]]
           \/ req' = [req EXCEPT ![r] = [does |-> "delete project", project |-> p]]
  /\ UNCHANGED <<org, project, client, reopened>>

\* The form, or the transaction, fails.
Fail(r) ==
  /\ req[r] # Idle
  /\ Done(r)
  /\ UNCHANGED <<org, project, client, reopened>>

-----------------------------------------------------------------------------
(* Commit *)

\* Mutant: one closed project is enough.
SomeClosed(o) == \E p \in ProjectsOf(o) : project[p] = "closed"

\* The transaction counts the active projects.
AllClosed(o) == \A p \in ProjectsOf(o) : project[p] # "active"

ClientArchive(r) ==
  /\ req[r].does = "archive"
  /\ AllClosed(req[r].org)
  /\ SetOrg(req[r].org, "archived")
  /\ Done(r)
  /\ UNCHANGED <<project, client, reopened>>

ClientUnarchive(r) ==
  /\ req[r].does = "unarchive"
  /\ SetOrg(req[r].org, "active")
  /\ Done(r)
  /\ UNCHANGED <<project, client, reopened>>

\* Mutant: the organization's closed projects only.
ClosedOf(o) == {p \in ProjectsOf(o) : project[p] = "closed"}

\* SELECT id FROM projects WHERE client_org_id = ?
Deleted(o) == {p \in ProjectsOf(o) : Exists(project[p])}

ClientDelete(r) ==
  /\ req[r].does = "delete client"
  /\ project' = [p \in Projects |->
                   IF p \in Deleted(req[r].org) THEN "deleted" ELSE project[p]]
  /\ SetOrg(req[r].org, "deleted")
  /\ Done(r)
  /\ reopened' = reopened \ Deleted(req[r].org)
  /\ UNCHANGED client

ProjectClose(r) ==
  /\ req[r].does = "close"
  /\ SetProject(req[r].project, "closed")
  /\ Done(r)
  /\ reopened' = reopened \ {req[r].project}
  /\ UNCHANGED <<org, client>>

ProjectReopen(r) ==
  /\ req[r].does = "reopen"
  /\ SetProject(req[r].project, "active")
  /\ Done(r)
  /\ reopened' = reopened \cup {p \in {req[r].project} :
                    project[p] = "closed" /\ org[client[p]] = "archived"}
  /\ UNCHANGED <<org, client>>

ProjectDelete(r) ==
  /\ req[r].does = "delete project"
  /\ SetProject(req[r].project, "deleted")
  /\ Done(r)
  /\ reopened' = reopened \ {req[r].project}
  /\ UNCHANGED <<org, client>>

Next ==
  \/ \E o \in Orgs : ClientCreate(o)
  \/ \E p \in Projects, o \in Orgs : ProjectCreate(p, o)
  \/ \E r \in Requests :
       \/ \E o \in Orgs : LoadClient(r, o)
       \/ \E p \in Projects : LoadProject(r, p)
       \/ Fail(r)
       \/ ClientArchive(r) \/ ClientUnarchive(r) \/ ClientDelete(r)
       \/ ProjectClose(r) \/ ProjectReopen(r) \/ ProjectDelete(r)

Spec == Init /\ [][Next]_vars

-----------------------------------------------------------------------------
(* Properties *)

\* A project that exists has a client that exists, though the client may be
\* archived, unarchived and deleted by requests that know nothing of a project just
\* created: the foreign key of projects never fails a clientDelete.
ProjectsHaveClient ==
  \A p \in Projects : Exists(project[p]) => client[p] \in Orgs /\ Exists(org[client[p]])

\* An archived client has no active project but those that projectReopen opened
\* again: creating, closing, archiving and unarchiving, in any order and however
\* late they commit, leave none behind.
ArchivedAllClosedButReopened ==
  \A p \in Projects :
    project[p] = "active" /\ org[client[p]] = "archived" => p \in reopened
=============================================================================
