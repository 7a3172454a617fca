CONSTANTS
    ann = ann
    ben = ben
    eve = eve
    o1 = o1
    o2 = o2
    t1 = t1
    t2 = t2
    k1 = k1
    Requests = {r1, r2}
    Users = {ann, ben, eve}
    Keys = {k1}
    Orgs = {o1, o2}
    Templates = {t1, t2}
    Nobody = Nobody
    RoleIn <- MCRoleIn
    KeyOrg <- MCKeyOrg
    KeyScopes <- MCKeyScopes
    TemplateOrg <- MCTemplateOrg
    MaxVersions = 2
    MaxJobs = 1
    MaxDisabled = 1
SPECIFICATION Spec
INVARIANTS
    VersionsAreKept
CHECK_DEADLOCK FALSE
