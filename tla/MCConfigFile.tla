---------------------------- MODULE MCConfigFile ----------------------------
(* Instances of ConfigFile for TLC. *)
EXTENDS ConfigFile, TLC

CONSTANTS a1, a2

Good == File(None, "hex", 1, TRUE)
Shared == File("profile.json", "zeros", 1, TRUE)

(* What is typed: a valid content, one whose device id only Rust takes,    *)
(* one that takes the profile, one without a refresh token, and one that   *)
(* names an empty path.                                                    *)
MCContents == {Good, File(None, "wide", 2, TRUE), Shared,
               File(None, "hex", 1, FALSE), File("", "hex", 1, TRUE)}
(* What was there before: one of them, or the half of one. *)
MCFirst == {Good, Partial}
(* Profiles: none, a good one, one of another version, one with a bad      *)
(* device id.                                                              *)
MCProfiles == {Missing, Profile("1.0", 40, TRUE, "hex"), Profile("2.0", 40, TRUE, "hex"),
               Profile("1.0", 40, TRUE, "short")}

AppSymmetry == Permutations(Apps)
=============================================================================
