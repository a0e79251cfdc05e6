---------------------------- MODULE PinnedSecret ----------------------------
(***************************************************************************)
(* PinnedSecret: the copy of a stream's key that a native call works with. *)
(* mlock keeps its page out of swap when the process may lock memory; the  *)
(* drop wipes the bytes, then unlocks the page, then frees the buffer.     *)
(* Locks belong to pages, not to buffers, and do not nest: munlock of one  *)
(* buffer unlocks its page for every other buffer on it.  A key is shorter *)
(* than a page and lies on one.                                            *)
(***************************************************************************)
CONSTANTS Calls,            \* the calls that may hold a secret
          Pages,            \* the pages secrets may lie on
          SharedPages       \* whether two secrets may lie on one page

ASSUME SharingKnown == SharedPages \in BOOLEAN

VARIABLES secret,           \* the secret each call holds
          resident          \* the pages that are locked in memory

secretVars == <<secret, resident>>

NoPage == "nowhere"
NoSecret == [bytes |-> "none", locked |-> FALSE, page |-> NoPage, stage |-> "live"]

(* The stage says how far the drop has got.                                *)
Secret ==
    [bytes : {"key", "zero"}, locked : BOOLEAN, page : Pages,
     stage : {"live", "wiped", "unlocked"}] \union {NoSecret}

SecretInit ==
    /\ secret = [c \in Calls |-> NoSecret]
    /\ resident = {}

Holds(c) == secret[c] # NoSecret

(* The allocator puts the copy on any page; mlock may be refused.          *)
from_slice(c) ==
    /\ ~Holds(c)
    /\ \E page \in Pages, locked \in BOOLEAN :
         /\ SharedPages \/ \A d \in Calls : Holds(d) => secret[d].page # page
         /\ secret' = [secret EXCEPT
              ![c] = [bytes |-> "key", locked |-> locked, page |-> page, stage |-> "live"]]
         /\ resident' = IF locked THEN resident \union {page} ELSE resident

(* mutant: the drop unlocks and frees what it has not wiped                *)
NotZeroized(c) ==
    /\ Holds(c)
    /\ secret[c].stage = "live"
    /\ secret' = [secret EXCEPT ![c].stage = "wiped"]
    /\ UNCHANGED resident

Zeroize(c) ==
    /\ Holds(c)
    /\ secret[c].stage = "live"
    /\ secret' = [secret EXCEPT ![c].bytes = "zero", ![c].stage = "wiped"]
    /\ UNCHANGED resident

(* munlock of what was locked, with everything else on its page.           *)
Unlock(c) ==
    /\ secret[c].stage = "wiped"
    /\ resident' = IF secret[c].locked THEN resident \ {secret[c].page} ELSE resident
    /\ secret' = [secret EXCEPT ![c].stage = "unlocked"]

(* The buffer goes back to the allocator.                                  *)
Dealloc(c) ==
    /\ secret[c].stage = "unlocked"
    /\ secret' = [secret EXCEPT ![c] = NoSecret]
    /\ UNCHANGED resident

-----------------------------------------------------------------------------
(* "mlock keeps it out of swap": the page of a key that mlock has locked   *)
(* stays in memory until the key is wiped, whatever other calls do with    *)
(* keys of their own.                                                      *)
KeysPinned ==
    \A c \in Calls :
        secret[c].bytes = "key" /\ secret[c].locked => secret[c].page \in resident
=============================================================================
