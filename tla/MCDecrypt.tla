------------------------------ MODULE MCDecrypt ------------------------------
(* Two accounts and the archives the store may send: one with a manifest, one   *)
(* without, one with a watch app in front, one without an app.                  *)
EXTENDS Decrypt

CONSTANTS ann, bob

Entry(d, f) == <<d, f>>
Plain == <<Entry("__MACOSX", "junk"), Entry("main", "Info.plist"), Entry("main", "Manifest.plist"), Entry("main", "Tool.sinf"),
           Entry("main", "Tool"), Entry("", "iTunesMetadata.plist"), Entry("watch", "Info.plist")>>
NoPaths == [a \in Apps |-> <<Unset>>]
Execs == [main |-> "Tool.sinf", watch |-> "Watch.sinf"]
Paths(seq) == [NoPaths EXCEPT !["main"] = seq]
MCArchives == {
    [entries |-> Plain, paths |-> Paths(<<"Tool.sinf", "Kit.sinf">>), exec |-> Execs, sinfs |-> 2],
    [entries |-> Plain, paths |-> Paths(<<"Tool.sinf", "Kit.sinf">>), exec |-> Execs, sinfs |-> 0],
    [entries |-> Tail(Plain), paths |-> NoPaths, exec |-> Execs, sinfs |-> 1],
    [entries |-> Plain, paths |-> NoPaths, exec |-> [Execs EXCEPT !["main"] = Unset], sinfs |-> 1],
    [entries |-> Reverse(Plain), paths |-> Paths(<<"Tool.sinf">>), exec |-> Execs, sinfs |-> 1],
    [entries |-> <<Entry("main", "Tool")>>, paths |-> NoPaths, exec |-> Execs, sinfs |-> 1]}

Ask(kind, menu, who, password, folder, pick) ==
    [kind |-> kind, menu |-> menu, who |-> who, password |-> password, folder |-> folder, pick |-> pick]
MCCommands == {
    Ask("keep", FALSE, NoAccount, "right", Unset, "new"), Ask("keep", TRUE, NoAccount, "right", Unset, "never"),
    Ask("change", FALSE, ann, "right", "games", "new"), Ask("change", TRUE, bob, "right", "games", "new"),
    Ask("change", FALSE, bob, "wrong", Unset, "new"), Ask("change", FALSE, bob, "missing", Unset, "new"),
    Ask("relogin", TRUE, ann, "right", "games", "last"), Ask("logout", FALSE, NoAccount, "right", Unset, "new")}
=============================================================================
