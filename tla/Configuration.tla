---------------------------- MODULE Configuration ----------------------------
(***************************************************************************)
(* Config: the user and the server configurations, read from two JSON      *)
(* files when the program starts and written back by ~Config, each file    *)
(* truncated and then filled.  The program may end at any point.  A        *)
(* configuration is its name: the sets compare by name, and no operation   *)
(* changes the settings under a name (setup_server_config inserts into a   *)
(* set that has the name, which does nothing).  Names that DataStore also  *)
(* has carry a "config", so that one module can be about both.             *)
(***************************************************************************)
EXTENDS Naturals

CONSTANT Names    \* names of server configurations the user may give

Default == "default"
NoName  == "empty"    \* a default-constructed configuration, whose name is ""

(* The option --name refuses an empty name.                                 *)
ASSUME NamesAssumption == NoName \notin Names

VARIABLES
    place,       \* "off", "run", or where ~Config is
    configs,     \* configs_: user configurations
    user,        \* name of user_config_
    servers,     \* server_configs_
    current,     \* name of server_config_
    userFile,    \* "absent", "torn" (does not parse) or "whole"
    serverFile,  \* [st, last, kind, names]: what the file holds
    ended        \* history: how the last session ended, "never", "orderly" or "early"

memory     == <<configs, user, servers, current>>
files      == <<userFile, serverFile>>
configVars == <<place, memory, files, ended>>

AllNames == Names \cup {Default}

NoMemory ==
    configs' = {} /\ user' = NoName /\ servers' = {} /\ current' = NoName

ConfigInit ==
    /\ place = "off" /\ ended = "never"
    /\ configs = {} /\ user = NoName /\ servers = {} /\ current = NoName
    /\ userFile = "absent"
    /\ serverFile = [st |-> "absent", last |-> NoName, kind |-> "array", names |-> {}]

-----------------------------------------------------------------------------
(* Config(): read_user_config, read_server_config                           *)

(* A file that does not parse leaves everything empty, the default          *)
(* configuration included.  The file itself is written without "last" and   *)
(* "configs", so one that parses gives the default configuration only.      *)
read_user_config ==
    IF userFile = "whole" THEN configs' = {Default} /\ user' = Default
                          ELSE configs' = {} /\ user' = NoName

(* "configs" is looked at only if it is an object, and as_array() of an     *)
(* object throws out of a noexcept function: with one in the file no start  *)
(* gets past reading.  An array, which is what is written, is not read.     *)
ReadThrows    == serverFile.st = "whole" /\ serverFile.kind = "object"
StoredServers == {}

(* Mutant: nothing replaces a last configuration that is not stored.        *)
read_server_config_trusting ==
    IF serverFile.st # "whole"
    THEN servers' = {} /\ current' = NoName
    ELSE /\ current' = IF serverFile.last \in StoredServers THEN serverFile.last ELSE NoName
         /\ servers' = StoredServers

(* A last configuration that is not among the stored ones is replaced by    *)
(* the default one; an empty set gets the current configuration.            *)
read_server_config ==
    IF serverFile.st # "whole"
    THEN servers' = {} /\ current' = NoName
    ELSE /\ current' = IF serverFile.last \in StoredServers THEN serverFile.last ELSE Default
         /\ servers' = IF StoredServers = {} THEN {current'} ELSE StoredServers

StartConfig ==
    /\ place = "off" /\ place' = "run"
    /\ ~ReadThrows
    /\ read_user_config /\ read_server_config
    /\ UNCHANGED <<files, ended>>

-----------------------------------------------------------------------------
(* Commands                                                                 *)

add_server_config(n) ==
    /\ place = "run" /\ n \notin servers
    /\ servers' = servers \cup {n}
    /\ UNCHANGED <<place, configs, user, current, files, ended>>

set_server_config(n) ==
    /\ place = "run" /\ n \in servers
    /\ current' = n
    /\ UNCHANGED <<place, configs, user, servers, files, ended>>

(* The process is gone without ~Config having finished.                     *)
EndEarly == place' = "off" /\ ended' = "early" /\ NoMemory /\ UNCHANGED files

(* Mutant: the current configuration stays.                                 *)
remove_server_config_keeps(n) ==
    /\ place = "run" /\ n # Default /\ n \in servers
    /\ servers' = servers \ {n}
    /\ UNCHANGED <<place, configs, user, current, files, ended>>

(* The default configuration becomes the current one whichever was removed; *)
(* without one the end iterator is dereferenced, which ends the process.    *)
remove_server_config(n) ==
    /\ place = "run" /\ n # Default /\ n \in servers
    /\ IF Default \in servers
       THEN /\ servers' = servers \ {n} /\ current' = Default
            /\ UNCHANGED <<place, configs, user, files, ended>>
       ELSE EndEarly

(* user_config_ is left alone, and no command sets it or adds to configs_.  *)
remove_user_config(n) ==
    /\ place = "run" /\ n \in configs
    /\ configs' = configs \ {n}
    /\ UNCHANGED <<place, user, servers, current, files, ended>>

-----------------------------------------------------------------------------
(* ~Config: save() = write_user_config, write_server_config                 *)

Exit ==
    /\ place = "run" /\ place' = "user"
    /\ ended' = "orderly"
    /\ UNCHANGED <<memory, files>>

(* The directory is not accessible, the file does not open, or the stream   *)
(* fails once it is truncated, which nobody looks at.                       *)
WriteConfigFails ==
    /\ ended' = "early"
    /\ \/ place \in {"user", "userOpen"} /\ place' = "server" /\ UNCHANGED <<memory, files>>
       \/ place \in {"server", "serverOpen"} /\ place' = "off" /\ NoMemory /\ UNCHANGED files

OpenUser ==
    /\ place = "user" /\ place' = "userOpen"
    /\ userFile' = "torn"
    /\ UNCHANGED <<memory, serverFile, ended>>

WriteUser ==
    /\ place = "userOpen" /\ place' = "server"
    /\ userFile' = "whole"
    /\ UNCHANGED <<memory, serverFile, ended>>

OpenServer ==
    /\ place = "server" /\ place' = "serverOpen"
    /\ serverFile' = [serverFile EXCEPT !.st = "torn"]
    /\ UNCHANGED <<memory, userFile, ended>>

(* "last" is a name, "configs" an array.                                    *)
WriteServer ==
    /\ place = "serverOpen" /\ place' = "off"
    /\ serverFile' = [st |-> "whole", last |-> current, kind |-> "array", names |-> servers]
    /\ NoMemory
    /\ UNCHANGED <<userFile, ended>>

CrashConfig == place # "off" /\ EndEarly

ConfigNext ==
    \/ StartConfig \/ Exit \/ WriteConfigFails \/ CrashConfig
    \/ OpenUser \/ WriteUser \/ OpenServer \/ WriteServer
    \/ \E n \in AllNames : \/ add_server_config(n) \/ set_server_config(n)
                           \/ remove_server_config(n) \/ remove_user_config(n)

ConfigSpec == ConfigInit /\ [][ConfigNext]_configVars

-----------------------------------------------------------------------------
(* Properties                                                               *)

ConfigTypeOK ==
    /\ place \in {"off", "run", "user", "userOpen", "server", "serverOpen"}
    /\ configs \subseteq {Default} /\ user \in {Default, NoName}
    /\ servers \subseteq AllNames /\ current \in AllNames \cup {NoName}
    /\ userFile \in {"absent", "torn", "whole"}
    /\ serverFile \in [st : {"absent", "torn", "whole"}, last : AllNames \cup {NoName},
                       kind : {"array"}, names : SUBSET AllNames]
    /\ ended \in {"never", "orderly", "early"}

(* The configuration a server would be launched with is one the user can    *)
(* see in the list, whatever was added, set and removed before; the only    *)
(* other one is the empty configuration of a start without readable file.   *)
CurrentRegistered == current \in servers \/ current = NoName

(* A session after an orderly end has the default configuration, so that    *)
(* there is a current one to launch with and remove_server_config never     *)
(* dereferences the end of the set.  (A first session, or one after an end  *)
(* inside ~Config, has neither.)  ~Config writes before it ends, so this    *)
(* also holds for the sessions that wrote an empty current configuration.   *)
DefaultAfterOrderlyEnd ==
    place = "run" /\ ended = "orderly" => Default \in servers /\ current # NoName
=============================================================================
