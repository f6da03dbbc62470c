SPECIFICATION Spec
CONSTANTS
    Accounts = {a1}
    Tenants = {home, abroad}
    Main = home
    Roles = {admin}
    Admin = admin
    Minters = {admin}
    GuestRoles = {admin}
    FirstAdmins = {a1}
    BreakGlass = {}
    Enrolled = {}
    Requests = {r1}
    Life = 1
    MaxCreds = 3
    MaxChanges = 2
    Nobody = Nobody
PROPERTIES TokenActsWhereIssued
