----------------------------- MODULE Catalogue -----------------------------
(***************************************************************************)
(* The course catalogue, the links of courses to departments and levels,   *)
(* and the enrolment that follows from a user's department and level.      *)
(*                                                                         *)
(* CoursesRepository.create runs in a transaction (READ COMMITTED): its    *)
(* course stays invisible until it commits, and an insert of the same code *)
(* waits for it.  Everything else is one statement after another.  Reviews *)
(* of courses and links are in module Review.                              *)
(***************************************************************************)
EXTENDS Integers, FiniteSets

CONSTANTS
  Courses,      \* course ids, never used twice
  Codes, Names, \* what a course is looked up by; only the code is unique
  Departments, Levels,
  Students,
  NoCourse,     \* no course, no code, ...
  CatRequests,  \* requests that may be in flight at once
  MaxCatFaults  \* bound: updates of a user cut short

Profile == [department : Departments, level : Levels]
CourseRow == [code : Codes, name : Names]

ASSUME CatalogueAssumption ==
  /\ NoCourse \notin Courses \union Departments \union Levels \union Students
  /\ NoCourse \notin CourseRow \union Profile
  /\ MaxCatFaults \in Nat

VARIABLES
  course,     \* id |-> [code, name], or NoCourse
  retired,    \* ids of deleted courses
  link,       \* <<department, course>> |-> level, or NoCourse: the key has no level
  student,    \* user |-> [department, level]
  enrolled,   \* rows of user_courses
  cat,        \* the requests in flight
  catFaults,  \* updates cut short so far
  twins,      \* history: a course was named while another of that name was coming
  unsettled   \* history: students whose courses need not be those of their row

catVars == <<course, retired, link, student, enrolled, cat, catFaults, twins, unsettled>>

Or0(S) == S \union {NoCourse}

CatRequest ==
  [at : {"idle", "find", "name", "check", "commit", "store", "clear", "fetch", "enrol", "profile"},
   row : Or0(CourseRow), c : Or0(Courses), d : Or0(Departments), l : Or0(Levels),
   u : Or0(Students), to : Or0(Profile),  \* an update: whose, and which courses it assigns
   fetched : SUBSET Courses,
   alone : BOOLEAN]                       \* history: no other update of the user before it clears
CatIdle == [at |-> "idle", row |-> NoCourse, c |-> NoCourse, d |-> NoCourse, l |-> NoCourse,
            u |-> NoCourse, to |-> NoCourse, fetched |-> {}, alone |-> FALSE]

Listed == {c \in Courses : course[c] # NoCourse}

CatTypeOK ==
  /\ course \in [Courses -> Or0(CourseRow)]
  /\ \A c, e \in Listed : course[c].code = course[e].code => c = e
  /\ retired \in SUBSET (Courses \ Listed)
  /\ link \in [Departments \X Courses -> Or0(Levels)]
  /\ \A p \in Departments \X Courses : link[p] # NoCourse => p[2] \in Listed
  /\ student \in [Students -> Profile]
  /\ enrolled \in SUBSET (Students \X Listed)
  /\ cat \in [CatRequests -> CatRequest]
  /\ catFaults \in 0 .. MaxCatFaults
  /\ twins \in BOOLEAN
  /\ unsettled \in SUBSET Students

CatInit ==
  /\ course = [c \in Courses |-> NoCourse]
  /\ retired = {}
  /\ link = [p \in Departments \X Courses |-> NoCourse]
  /\ student \in [Students -> Profile]
  /\ enrolled = {}
  /\ cat = [r \in CatRequests |-> CatIdle]
  /\ catFaults = 0
  /\ twins = FALSE
  /\ unsettled = {}

CatSet(r, q) == cat' = [cat EXCEPT ![r] = q]
CatEnd(r) == CatSet(r, CatIdle)
CatStart(r, at, row, c, d, l) ==
  /\ cat[r] = CatIdle
  /\ CatSet(r, [CatIdle EXCEPT !.at = at, !.row = row, !.c = c, !.d = d, !.l = l])

\* Updates of a user that are under way.
Updates(u) == {r \in CatRequests : cat[r].u = u}

\* A change of its links unsettles whoever is, or is about to be, of the department.
OfDepartment(d) ==
  {u \in Students : \/ student[u].department = d
                    \/ \E r \in Updates(u) : cat[r].to.department = d}

-----------------------------------------------------------------------------
(* create: find or insert the course, then link it, in one transaction *)

CreateCourse(r, row, d, l) ==
  /\ CatStart(r, "find", row, NoCourse, d, l)
  /\ UNCHANGED <<course, retired, link, student, enrolled, catFaults, twins, unsettled>>

\* Mutant: only the code is looked up.
FindSameCode(r) ==
  /\ cat[r].at = "find"
  /\ LET row == cat[r].row
         same == {c \in Listed : course[c].code = row.code}
     IN IF same = {} THEN CatSet(r, [cat[r] EXCEPT !.at = "name"])
        ELSE \E c \in same : CatSet(r, [cat[r] EXCEPT !.at = "check", !.c = c, !.row = NoCourse])
  /\ UNCHANGED <<course, retired, link, student, enrolled, catFaults, twins, unsettled>>

\* Code or name: with two candidates the database returns either.
FindSameCourse(r) ==
  /\ cat[r].at = "find"
  /\ LET row == cat[r].row
         same == {c \in Listed : course[c].code = row.code \/ course[c].name = row.name}
     IN IF same = {} THEN CatSet(r, [cat[r] EXCEPT !.at = "name"])
        ELSE \E c \in same : CatSet(r, [cat[r] EXCEPT !.at = "check", !.c = c, !.row = NoCourse])
  /\ UNCHANGED <<course, retired, link, student, enrolled, catFaults, twins, unsettled>>

\* A transaction that has inserted a course and has not committed.
Inserted(r) == cat[r].at \in {"check", "commit"} /\ cat[r].row # NoCourse
Uncommitted(r) == {s \in CatRequests \ {r} : Inserted(s)}

SameName(row, other) == row # NoCourse /\ other # NoCourse /\ row.name = other.name

\* The insert waits for an uncommitted course of the same code, and then fails.
InsertCourse(r) ==
  /\ cat[r].at = "name"
  /\ LET row == cat[r].row
         taken == {course[c].code : c \in Listed}
         ids == Courses \ (Listed \union retired \union {cat[s].c : s \in Uncommitted(r)})
     IN /\ \A s \in Uncommitted(r) : cat[s].row.code # row.code
        /\ IF row.code \in taken THEN CatEnd(r)
           ELSE \E c \in ids : CatSet(r, [cat[r] EXCEPT !.at = "check", !.c = c])
        /\ twins' = (twins \/ \E s \in Uncommitted(r) : cat[s].row.name = row.name)
  /\ UNCHANGED <<course, retired, link, student, enrolled, catFaults, unsettled>>

\* The look-up of the link compares the level too; a hit ends the transaction.
FindLinkOfLevel(r) ==
  /\ cat[r].at = "check"
  /\ IF link[<<cat[r].d, cat[r].c>>] = cat[r].l THEN CatEnd(r)
     ELSE CatSet(r, [cat[r] EXCEPT !.at = "commit"])
  /\ UNCHANGED <<course, retired, link, student, enrolled, catFaults, twins, unsettled>>

\* A link of another level breaks the primary key and rolls everything back.
InsertLinkAndCommit(r) ==
  /\ cat[r].at = "commit"
  /\ LET c == cat[r].c
         d == cat[r].d
     IN IF link[<<d, c>>] = NoCourse /\ (cat[r].row # NoCourse \/ c \in Listed)
        THEN /\ course' = IF cat[r].row # NoCourse THEN [course EXCEPT ![c] = cat[r].row] ELSE course
             /\ link' = [link EXCEPT ![<<d, c>>] = cat[r].l]
             /\ unsettled' = unsettled \union OfDepartment(d)
             /\ twins' = \/ twins
                         \/ \E s \in CatRequests \ {r} : cat[s].at = "name" /\ SameName(cat[s].row, cat[r].row)
        ELSE UNCHANGED <<course, link, unsettled, twins>>
  /\ CatEnd(r)
  /\ UNCHANGED <<retired, student, enrolled, catFaults>>

-----------------------------------------------------------------------------
(* Links and removals *)

\* The course and the department are looked up, then a link of any level.
LinkCourse(r, c, d, l) ==
  /\ c \in Listed
  /\ link[<<d, c>>] = NoCourse
  /\ CatStart(r, "store", NoCourse, c, d, l)
  /\ UNCHANGED <<course, retired, link, student, enrolled, catFaults, twins, unsettled>>

\* A link that has come meanwhile, or a course that has gone, is an error.
StoreLink(r) ==
  /\ cat[r].at = "store"
  /\ LET c == cat[r].c
         d == cat[r].d
     IN IF link[<<d, c>>] = NoCourse /\ c \in Listed
        THEN /\ link' = [link EXCEPT ![<<d, c>>] = cat[r].l]
             /\ unsettled' = unsettled \union OfDepartment(d)
        ELSE UNCHANGED <<link, unsettled>>
  /\ CatEnd(r)
  /\ UNCHANGED <<course, retired, student, enrolled, catFaults, twins>>

DeleteLink(d, c) ==
  /\ link[<<d, c>>] # NoCourse
  /\ link' = [link EXCEPT ![<<d, c>>] = NoCourse]
  /\ unsettled' = unsettled \union OfDepartment(d)
  /\ UNCHANGED <<course, retired, student, enrolled, cat, catFaults, twins>>

\* An administrator gives a course another code or name; like the insert, it waits for
\* an uncommitted course of the code.
UpdateCourse(c, row) ==
  /\ c \in Listed
  /\ \A e \in Listed \ {c} : course[e].code # row.code
  /\ \A s \in CatRequests : Inserted(s) => cat[s].row.code # row.code
  /\ course' = [course EXCEPT ![c] = row]
  /\ twins' = \/ twins
              \/ \E e \in Listed \ {c} : course[e].name = row.name
              \/ \E s \in CatRequests : /\ cat[s].at = "name" \/ Inserted(s)
                                       /\ cat[s].row.name = row.name
  /\ UNCHANGED <<retired, link, student, enrolled, cat, catFaults, unsettled>>

\* Mutant: the enrolments do not go with the course.
DeleteCourseAlone(c) ==
  /\ c \in Listed
  /\ course' = [course EXCEPT ![c] = NoCourse]
  /\ retired' = retired \union {c}
  /\ link' = [p \in Departments \X Courses |-> IF p[2] = c THEN NoCourse ELSE link[p]]
  /\ UNCHANGED <<student, enrolled, cat, catFaults, twins, unsettled>>

\* Links and enrolments go with the course.
DeleteCourse(c) ==
  /\ c \in Listed
  /\ course' = [course EXCEPT ![c] = NoCourse]
  /\ retired' = retired \union {c}
  /\ link' = [p \in Departments \X Courses |-> IF p[2] = c THEN NoCourse ELSE link[p]]
  /\ enrolled' = {e \in enrolled : e[2] # c}
  /\ UNCHANGED <<student, cat, catFaults, twins, unsettled>>

-----------------------------------------------------------------------------
(* A user's own row and courses *)

CoursesOf(d, l) == {c \in Courses : link[<<d, c>>] = l}

\* Mutant: a change of the level assigns the courses of the level in the row.
UpdateUserStale(r, u, d, l) ==
  /\ cat[r] = CatIdle
  /\ LET old == student[u]
         to == [old EXCEPT !.department = IF d = NoCourse THEN @ ELSE d]
         changes == to # old \/ l \notin {NoCourse, old.level}
     IN cat' = [s \in CatRequests |->
          IF s = r THEN [CatIdle EXCEPT !.at = IF changes THEN "clear" ELSE "profile",
                                        !.u = u, !.d = d, !.l = l, !.to = to,
                                        !.alone = (changes /\ Updates(u) = {})]
          ELSE IF s \in Updates(u) THEN [cat[s] EXCEPT !.alone = FALSE] ELSE cat[s]]
  /\ unsettled' = IF Updates(u) # {} THEN unsettled \union {u} ELSE unsettled
  /\ UNCHANGED <<course, retired, link, student, enrolled, catFaults, twins>>

\* UserService.update reads the row; NoCourse stands for a field left out.  A new
\* department or level moves the user to the courses of both.
UpdateUser(r, u, d, l) ==
  /\ cat[r] = CatIdle
  /\ LET old == student[u]
         to == [department |-> IF d = NoCourse THEN old.department ELSE d,
                level |-> IF l = NoCourse THEN old.level ELSE l]
     IN cat' = [s \in CatRequests |->
          IF s = r THEN [CatIdle EXCEPT !.at = IF to # old THEN "clear" ELSE "profile",
                                        !.u = u, !.d = d, !.l = l, !.to = to,
                                        !.alone = (to # old /\ Updates(u) = {})]
          ELSE IF s \in Updates(u) THEN [cat[s] EXCEPT !.alone = FALSE] ELSE cat[s]]
  /\ unsettled' = IF Updates(u) # {} THEN unsettled \union {u} ELSE unsettled
  /\ UNCHANGED <<course, retired, link, student, enrolled, catFaults, twins>>

DeleteAllUserCourses(r) ==
  /\ cat[r].at = "clear"
  /\ enrolled' = {e \in enrolled : e[1] # cat[r].u}
  /\ CatSet(r, [cat[r] EXCEPT !.at = "fetch", !.alone = FALSE])
  /\ unsettled' = IF cat[r].alone THEN unsettled \ {cat[r].u} ELSE unsettled
  /\ UNCHANGED <<course, retired, link, student, catFaults, twins>>

FindCoursesByDepartmentAndLevel(r) ==
  /\ cat[r].at = "fetch"
  /\ LET found == CoursesOf(cat[r].to.department, cat[r].to.level)
     IN CatSet(r, [cat[r] EXCEPT !.at = IF found = {} THEN "profile" ELSE "enrol", !.fetched = found])
  /\ UNCHANGED <<course, retired, link, student, enrolled, catFaults, twins, unsettled>>

\* One course that the user has already, or that has gone, fails the whole update.
CreateUserCourses(r) ==
  /\ cat[r].at = "enrol"
  /\ LET u == cat[r].u
     IN IF cat[r].fetched \subseteq Listed /\ \A c \in cat[r].fetched : <<u, c>> \notin enrolled
        THEN /\ enrolled' = enrolled \union ({u} \X cat[r].fetched)
             /\ CatSet(r, [cat[r] EXCEPT !.at = "profile", !.fetched = {}])
             /\ UNCHANGED unsettled
        ELSE CatEnd(r) /\ unsettled' = unsettled \union {u} /\ UNCHANGED enrolled
  /\ UNCHANGED <<course, retired, link, student, catFaults, twins>>

\* The row gets the fields of the request last.
UpdateUserRow(r) ==
  /\ cat[r].at = "profile"
  /\ student' = [student EXCEPT ![cat[r].u] =
                  [department |-> IF cat[r].d = NoCourse THEN @.department ELSE cat[r].d,
                   level |-> IF cat[r].l = NoCourse THEN @.level ELSE cat[r].l]]
  /\ CatEnd(r)
  /\ UNCHANGED <<course, retired, link, enrolled, catFaults, twins, unsettled>>

\* ON CONFLICT DO NOTHING.
AddCourse(u, c) ==
  /\ c \in Listed
  /\ enrolled' = enrolled \union {<<u, c>>}
  /\ unsettled' = unsettled \union {u}
  /\ UNCHANGED <<course, retired, link, student, cat, catFaults, twins>>

RemoveCourse(u, c) ==
  /\ enrolled' = enrolled \ {<<u, c>>}
  /\ unsettled' = unsettled \union {u}
  /\ UNCHANGED <<course, retired, link, student, cat, catFaults, twins>>

\* A step throws or the process dies; an open transaction is rolled back.
CatAbort(r) ==
  /\ cat[r].at # "idle"
  /\ catFaults < MaxCatFaults
  /\ catFaults' = catFaults + 1
  /\ CatEnd(r)
  /\ unsettled' = IF cat[r].u = NoCourse THEN unsettled ELSE unsettled \union {cat[r].u}
  /\ UNCHANGED <<course, retired, link, student, enrolled, twins>>

-----------------------------------------------------------------------------

CatNext ==
  \/ \E r \in CatRequests :
       \/ \E row \in CourseRow, d \in Departments, l \in Levels : CreateCourse(r, row, d, l)
       \/ FindSameCourse(r)
       \/ InsertCourse(r)
       \/ FindLinkOfLevel(r)
       \/ InsertLinkAndCommit(r)
       \/ \E c \in Courses, d \in Departments, l \in Levels : LinkCourse(r, c, d, l)
       \/ StoreLink(r)
       \/ \E u \in Students, d \in Or0(Departments), l \in Or0(Levels) : UpdateUser(r, u, d, l)
       \/ DeleteAllUserCourses(r)
       \/ FindCoursesByDepartmentAndLevel(r)
       \/ CreateUserCourses(r)
       \/ UpdateUserRow(r)
       \/ CatAbort(r)
  \/ \E c \in Courses :
       \/ DeleteCourse(c)
       \/ \E row \in CourseRow : UpdateCourse(c, row)
       \/ \E d \in Departments : DeleteLink(d, c)
       \/ \E u \in Students : AddCourse(u, c) \/ RemoveCourse(u, c)

CatSpec == CatInit /\ [][CatNext]_catVars

-----------------------------------------------------------------------------
(* Properties *)

\* Although only the code is unique in the database, no two courses have one name
\* unless two were named at once or an administrator did it: create looks for both.
NamesAreDistinct ==
  ~twins => \A c, e \in Listed : course[c].name = course[e].name => c = e

\* When nothing of the user is under way, a user whose last change of department or
\* level ran alone and to its end, and whose courses and links were left alone since, is
\* enrolled in the courses of the row's department and level, no more and no less.
EnrolmentFitsRow ==
  \A u \in Students :
    u \notin unsettled /\ Updates(u) = {}
      => {c \in Courses : <<u, c>> \in enrolled}
           = CoursesOf(student[u].department, student[u].level)
=============================================================================
