------------------------------ MODULE Package ------------------------------
(***************************************************************************)
(* utils::Package: configure, build, test, install and pack of a package   *)
(* run one external command at a time through the single Spawn m_spawn of *)
(* its Pimpl; Pimpl::process() waits for a child still running before it  *)
(* starts the next.  clean() and rclean() remove directories with their    *)
(* own synchronous Spawn (remove_all).  The client is one thread calling   *)
(* the public members; the child processes run beside it and exit by      *)
(* themselves.                                                             *)
(*                                                                         *)
(* Packages are model values; select() changes the package the object    *)
(* works on.  Directories are abstracted, per package, to whether the      *)
(* source directory, its buildvle and the binary package directory exist;  *)
(* the commands read from the preferences to whether each one is empty.    *)
(***************************************************************************)
EXTENDS Naturals

CONSTANTS
    Pkgs,         \* package names
    StartFails,   \* whether Spawn::start may fail (program not found)
    NULL

Cmds == {"configure", "test", "build", "install", "pack"}
ASSUME StartFails \in BOOLEAN

VARIABLES
    pkg,        \* m_pkgname
    emptyPrefs, \* commands whose vle.packages.* preference is empty
    srcdir,     \* per package: the source package directory exists
    bdir,       \* per package: its buildvle directory exists
    bindir,     \* per package: the binary package directory exists
    child,      \* m_spawn: [cmd, pkg, state: none|running|exited, ok]
    issuccess,  \* m_issuccess
    answer,     \* what the last isSuccess()/wait() returned, or NULL
    removedBusy \* a directory was removed while a child was running

vars == <<pkg, emptyPrefs, srcdir, bdir, bindir, child, issuccess, answer,
          removedBusy>>

ChildType == [cmd : Cmds \cup {"none"}, pkg : Pkgs \cup {NULL},
              state : {"none", "running", "exited"}, ok : BOOLEAN]

-----------------------------------------------------------------------------
(* mCommandX.empty() after refreshCommands(), which each operation calls   *)
(* when the command it tests is still empty                                *)
CmdEmpty(c) == c \in emptyPrefs

(* Spawn::start result (also that of remove_all's own Spawn)               *)
StartResults == IF StartFails THEN BOOLEAN ELSE {TRUE}

Running(ch) == ch.state = "running"

(* Pimpl::process, lines up to the start: a running child is waited for   *)
(* (it exits with outcome o) ...                                           *)
Waited(ch, o) == IF Running(ch) THEN [ch EXCEPT !.state = "exited", !.ok = o]
                 ELSE ch

(* ... then m_spawn.start(exe, dir, argv) in a directory of the selected  *)
(* package; false throws ArgError.                                         *)
Started(ch, c, started) ==
    IF started THEN [cmd |-> c, pkg |-> pkg, state |-> "running", ok |-> FALSE]
    ELSE ch

(* remove_all(path) runs the vle.command.dir.remove command on an        *)
(* existing directory of the selected package and waits for it; when the  *)
(* command cannot be started the exception is caught and only traced, and *)
(* the directory stays (gone = FALSE).  A removal that runs does so under  *)
(* the children that use the directory.                                    *)
RemoveAll(exists, users, gone) ==
    removedBusy' = (removedBusy \/
                    (exists /\ gone /\ Running(child) /\ child.cmd \in users
                     /\ child.pkg = pkg))

(* the directories of the selected package (getDir, getBuildDir)          *)
Src == srcdir[pkg]
Bd == bdir[pkg]
Bin == bindir[pkg]

(* a directory of the selected package is made to exist or not            *)
Set(d, v) == [d EXCEPT ![pkg] = v]

-----------------------------------------------------------------------------
(* Package(pkgname): the paths are computed, no command read, no child;   *)
(* the preferences file stays as it is.                                    *)
(* m_issuccess is not initialised; it is written before any read.         *)
Init ==
    /\ pkg \in Pkgs
    /\ emptyPrefs \in SUBSET Cmds
    /\ srcdir \in [Pkgs -> BOOLEAN] /\ bdir \in [Pkgs -> BOOLEAN]
    /\ \A p \in Pkgs : bdir[p] => srcdir[p]
    /\ bindir \in [Pkgs -> BOOLEAN]
    /\ child = [cmd |-> "none", pkg |-> NULL, state |-> "none", ok |-> FALSE]
    /\ issuccess \in BOOLEAN /\ answer = NULL
    /\ removedBusy = FALSE

(* Pimpl::process(exe, dir, argv) for command c, from the spawn state st  *)
(* (m_spawn and m_issuccess): the status of a child waited for is         *)
(* recorded into m_issuccess.                                              *)
Proc(st, c, o, started) ==
    LET w == Waited(st.child, o) IN
    [child |-> Started(w, c, started),
     issuccess |-> IF Running(st.child) THEN w.ok ELSE st.issuccess]

Now == [child |-> child, issuccess |-> issuccess]

SpawnIs(st) ==
    /\ child' = st.child /\ issuccess' = st.issuccess

(* create(): throws if the source directory exists; else creates it and   *)
(* copies the template with a Spawn of its own, waited for.                *)
create ==
    /\ ~Src /\ srcdir' = Set(srcdir, TRUE)
    /\ answer' = NULL
    /\ UNCHANGED <<pkg, emptyPrefs, bdir, bindir, child, issuccess,
                   removedBusy>>

(* configure(): throws on an empty command; creates buildvle (and its      *)
(* parents); process(cmake) in it.                                         *)
ConfigureSteps(o, s) ==
    /\ ~CmdEmpty("configure")
    /\ bdir' = Set(bdir, TRUE) /\ srcdir' = Set(srcdir, TRUE)
    /\ SpawnIs(Proc(Now, "configure", o, s))

configure ==
    /\ answer' = NULL
    /\ \/ /\ CmdEmpty("configure")
          /\ UNCHANGED <<srcdir, bdir, child, issuccess>>
       \/ \E o \in BOOLEAN, s \in StartResults : ConfigureSteps(o, s)
    /\ UNCHANGED <<pkg, emptyPrefs, bindir, removedBusy>>

(* build(): throws on an empty build command; configure() first if        *)
(* buildvle does not exist (its exceptions escape); then process(make),   *)
(* which waits for the configure child it may just have started.          *)
build ==
    /\ answer' = NULL
    /\ \/ /\ CmdEmpty("build") \/ (~Bd /\ CmdEmpty("configure"))
          /\ UNCHANGED <<srcdir, bdir, child, issuccess>>
       \/ /\ ~CmdEmpty("build") /\ Bd
          /\ \E o \in BOOLEAN, s \in StartResults :
                SpawnIs(Proc(Now, "build", o, s))
          /\ UNCHANGED <<srcdir, bdir>>
       \/ /\ ~CmdEmpty("build") /\ ~Bd /\ ~CmdEmpty("configure")
          /\ bdir' = Set(bdir, TRUE) /\ srcdir' = Set(srcdir, TRUE)
          /\ \E o1, o2 \in BOOLEAN, s1, s2 \in StartResults :
                LET st == Proc(Now, "configure", o1, s1) IN
                SpawnIs(IF s1 THEN Proc(st, "build", o2, s2) ELSE st)
    /\ UNCHANGED <<pkg, emptyPrefs, bindir, removedBusy>>

(* test() and install(): throw unless mCommandBuild (test() too checks    *)
(* that one) is set and buildvle exists; an empty test or install command *)
(* throws in Spawn::splitCommandLine before process().  install's child   *)
(* writes the binary package directory.                                    *)
RunInBuildDir(c) ==
    /\ answer' = NULL
    /\ \/ /\ CmdEmpty("build") \/ ~Bd \/ CmdEmpty(c)
          /\ UNCHANGED <<bindir, child, issuccess>>
       \/ /\ ~CmdEmpty("build") /\ Bd /\ ~CmdEmpty(c)
          /\ \E o \in BOOLEAN, s \in StartResults :
                /\ SpawnIs(Proc(Now, c, o, s))
                /\ bindir' = Set(bindir, Bin \/ (c = "install" /\ s))
    /\ UNCHANGED <<pkg, emptyPrefs, srcdir, bdir, removedBusy>>

test == RunInBuildDir("test")

install == RunInBuildDir("install")

(* mutant of pack: buildvle made whether or not its parent exists         *)
packAnyDir ==
    /\ answer' = NULL
    /\ \/ /\ CmdEmpty("build")
          /\ UNCHANGED <<bdir, child, issuccess>>
       \/ /\ ~CmdEmpty("build")
          /\ bdir' = Set(bdir, TRUE)
          /\ IF CmdEmpty("pack")
             THEN UNCHANGED <<child, issuccess>>
             ELSE \E o \in BOOLEAN, s \in StartResults :
                     SpawnIs(Proc(Now, "pack", o, s))
    /\ UNCHANGED <<pkg, emptyPrefs, srcdir, bindir, removedBusy>>

(* pack(): throws on an empty build command; create_directory(buildvle)   *)
(* (which needs the source directory); process(cpack).                    *)
pack ==
    /\ answer' = NULL
    /\ \/ /\ CmdEmpty("build")
          /\ UNCHANGED <<bdir, child, issuccess>>
       \/ /\ ~CmdEmpty("build")
          /\ bdir' = Set(bdir, Bd \/ Src)
          /\ IF CmdEmpty("pack")
             THEN UNCHANGED <<child, issuccess>>
             ELSE \E o \in BOOLEAN, s \in StartResults :
                     SpawnIs(Proc(Now, "pack", o, s))
    /\ UNCHANGED <<pkg, emptyPrefs, srcdir, bindir, removedBusy>>

(* clean(): remove_all(buildvle), the working directory of every child.   *)
clean ==
    /\ \E gone \in StartResults :
          RemoveAll(Bd, Cmds, gone) /\ bdir' = Set(bdir, Bd /\ ~gone)
    /\ answer' = NULL
    /\ UNCHANGED <<pkg, emptyPrefs, srcdir, bindir, child, issuccess>>

(* rclean(): remove_all(binary package directory), which install writes.  *)
rclean ==
    /\ \E gone \in StartResults :
          RemoveAll(Bin, {"install"}, gone) /\ bindir' = Set(bindir, Bin /\ ~gone)
    /\ answer' = NULL
    /\ UNCHANGED <<pkg, emptyPrefs, srcdir, bdir, child, issuccess>>

(* select(name): m_pkgname = name and refreshPath(); the paths now name    *)
(* the other package's directories.  m_spawn is left as it is.            *)
select ==
    /\ \E name \in Pkgs : pkg' = name
    /\ answer' = NULL
    /\ UNCHANGED <<emptyPrefs, srcdir, bdir, bindir, child, issuccess,
                   removedBusy>>

(* remove(toremove, type): remove_all(getDir(type)/toremove) if it exists. *)
(* toremove is buildvle or another entry (sources, outputs), whose         *)
(* existence the model does not track; every command reads the source     *)
(* tree, install writes the binary one.                                    *)
remove ==
    /\ \E gone \in StartResults :
          \/ /\ RemoveAll(Bd, Cmds, gone)                        \* "buildvle"
             /\ bdir' = Set(bdir, Bd /\ ~gone)
          \/ /\ \E e \in BOOLEAN : RemoveAll(Src /\ e, Cmds, gone) \* other, source
             /\ UNCHANGED bdir
          \/ /\ \E e \in BOOLEAN : RemoveAll(Bin /\ e, {"install"}, gone)
             /\ UNCHANGED bdir                                 \* binary
    /\ answer' = NULL
    /\ UNCHANGED <<pkg, emptyPrefs, srcdir, bindir, child, issuccess>>

(* rename(oldname, newname, PKG_SOURCE): throws ArgError unless oldname   *)
(* exists and newname does not; else FSpath::rename.  Only buildvle is     *)
(* tracked: renamed away, or another entry renamed to it.  (In the binary *)
(* directory nothing tracked changes.)                                    *)
rename ==
    /\ \E e \in BOOLEAN :                 \* the other entry exists
          \/ Bd /\ ~e /\ bdir' = Set(bdir, FALSE)        \* buildvle -> other
          \/ Src /\ ~Bd /\ e /\ bdir' = Set(bdir, TRUE)  \* other -> buildvle
          \/ UNCHANGED bdir                             \* ArgError thrown
    /\ answer' = NULL
    /\ UNCHANGED <<pkg, emptyPrefs, srcdir, bindir, child, issuccess,
                   removedBusy>>

(* isSuccess(): false while the child runs; else its status, stored into  *)
(* m_issuccess.                                                            *)
isSuccess ==
    /\ IF Running(child)
       THEN answer' = FALSE /\ UNCHANGED issuccess
       ELSE answer' = child.ok /\ issuccess' = child.ok
    /\ UNCHANGED <<pkg, emptyPrefs, srcdir, bdir, bindir, child,
                   removedBusy>>

(* wait(out, err): read the child's output until it ends, wait() for it,  *)
(* store its status into m_issuccess and return what m_spawn.status()      *)
(* returns; Spawn is not in the sources, so that value is any boolean.    *)
wait ==
    /\ \E o, r \in BOOLEAN :
          LET w == Waited(child, o) IN
          /\ child' = w /\ issuccess' = w.ok /\ answer' = r
    /\ UNCHANGED <<pkg, emptyPrefs, srcdir, bdir, bindir, removedBusy>>

(* a child process ends by itself (m_spawn.isfinish() becomes true)       *)
childExit ==
    /\ Running(child)
    /\ \E o \in BOOLEAN : child' = [child EXCEPT !.state = "exited", !.ok = o]
    /\ answer' = NULL
    /\ UNCHANGED <<pkg, emptyPrefs, srcdir, bdir, bindir, issuccess,
                   removedBusy>>

Next ==
    \/ create \/ configure \/ build \/ test \/ install \/ pack
    \/ clean \/ rclean \/ select \/ remove \/ rename \/ isSuccess \/ wait
    \/ childExit

Spec == Init /\ [][Next]_vars

-----------------------------------------------------------------------------
(* Properties                                                              *)

TypeOK ==
    /\ pkg \in Pkgs /\ emptyPrefs \subseteq Cmds
    /\ srcdir \in [Pkgs -> BOOLEAN] /\ bdir \in [Pkgs -> BOOLEAN]
    /\ bindir \in [Pkgs -> BOOLEAN]
    /\ \A p \in Pkgs : bdir[p] => srcdir[p]  \* buildvle lies in the source directory
    /\ child \in ChildType /\ issuccess \in BOOLEAN
    /\ answer \in BOOLEAN \cup {NULL}
    /\ removedBusy \in BOOLEAN

(* A Package object's calls stay with the package it names.  No directory *)
(* a running command works in is removed under it: clean(), rclean() and  *)
(* remove() against a configure/build/install child of that package.  And *)
(* the status isSuccess()/wait() report is that of a command of the       *)
(* selected package: select() while a child runs leaves that child in      *)
(* m_spawn, so isSuccess() or wait() after it reports the previous         *)
(* package's command.                                                      *)
PackageCallsIsolated ==
    /\ ~removedBusy
    /\ answer # NULL /\ child.state = "exited" => child.pkg = pkg
====
