--------------------------- MODULE GatewayConfig ----------------------------
(***************************************************************************)
(* Config::load and validate of crates/core/src/config.rs: what a          *)
(* configuration file and the canonical profile beside it mean.            *)
(*                                                                         *)
(* A file keeps of its text what the code looks at: whether it parses (all *)
(* sections are there, with their types), which profile it names, and the  *)
(* fields that are validated.  A device id is a member of DeviceIds.       *)
(***************************************************************************)
EXTENDS Naturals

Missing == [missing |-> TRUE]
(* A file that is being written, or whose writer has died. *)
Partial == [parses |-> FALSE]

(* Device ids: 64 hexadecimal digits, 64 other ASCII characters, 64 zeros, *)
(* another length; and, beyond ASCII, 64 bytes that are fewer UTF-16 units *)
(* (32 times an accented letter), or 64 such units that are more bytes.    *)
(* len() counts bytes, length of JavaScript units.                         *)
DeviceIds == {"hex", "words", "zeros", "short", "wide", "units"}
Ascii == {"hex", "words", "zeros", "short"}
DeviceAccepted == {"hex", "words", "wide"}
TsDeviceAccepted == {"hex", "words", "units"}
None == "none"

(* A configuration: path is its canonical_profile_path, None if absent.    *)
File(path, device, tokens, refresh) ==
    [parses |-> TRUE, path |-> path, device |-> device, tokens |-> tokens, refresh |-> refresh]
(* A canonical profile; keys is the number of keys of its env, of which    *)
(* typed says whether they are those of EnvConfig.                         *)
Profile(version, keys, typed, device) ==
    [parses |-> TRUE, version |-> version, keys |-> keys, typed |-> typed, device |-> device]

Failed(error) == [ok |-> FALSE, error |-> error]

(* What the profile at the file's path is, and why it cannot be used.  An  *)
(* empty path is the directory of the file, which exists and is not read.  *)
(* Mutants: the version is not looked at; the last step is left out.       *)
ProfileErrorAnyVersion(path, profile) ==
    CASE path = "" -> "io"
      [] path # "" /\ profile = Missing -> "no profile"
      [] path # "" /\ profile # Missing /\ ~profile.parses -> "json"
      [] path # "" /\ profile # Missing /\ profile.parses /\ profile.keys < 40 -> "keys"
      [] OTHER -> None
ProfileError(path, profile) ==
    CASE path = "" -> "io"
      [] path # "" /\ profile = Missing -> "no profile"
      [] path # "" /\ profile # Missing /\ ~profile.parses -> "json"
      [] path # "" /\ profile # Missing /\ profile.parses ->
            CASE profile.version # "1.0" -> "version"
              [] profile.version = "1.0" /\ profile.keys < 40 -> "keys"
              [] profile.version = "1.0" /\ profile.keys >= 40 /\ ~profile.typed -> "env"
              [] OTHER -> None

(* validate, in its order; device is the one of the chosen source. *)
Validate(file, device) ==
    CASE device \notin DeviceAccepted -> "device"
      [] device \in DeviceAccepted /\ file.tokens = 0 -> "tokens"
      [] device \in DeviceAccepted /\ file.tokens > 0 /\ ~file.refresh -> "refresh"
      [] OTHER -> None

(* Config::load *)
Load(file, profile) ==
    IF file = Missing THEN Failed("io")
    ELSE IF ~file.parses THEN Failed("yaml")
    ELSE LET profileError == IF file.path = None THEN None ELSE ProfileError(file.path, profile)
             invalid == Validate(file, IF file.path = None THEN file.device ELSE profile.device)
         IN  IF profileError # None THEN Failed(profileError)
             ELSE IF invalid # None THEN Failed(invalid)
             ELSE [ok |-> TRUE, file |-> file,
                   device |-> IF file.path = None THEN file.device ELSE profile.device]

-----------------------------------------------------------------------------
(* loadConfig of src/config.ts: what it says to a file whose sections have *)
(* the right types.                                                        *)
TsAccepts(file, profile) ==
    LET device == IF file.path \in {None, ""} THEN file.device ELSE profile.device IN
    /\ file # Missing /\ file.parses
    /\ file.path \notin {None, ""} =>
            profile # Missing /\ profile.parses /\ profile.version = "1.0" /\ profile.keys >= 40
    /\ device \in TsDeviceAccepted /\ file.tokens > 0 /\ file.refresh
=============================================================================
